---------------------------- MODULE Spec2Model ----------------------------
(***************************************************************************)
(* rt-static: a static, searchable mirror of a ticket tracker.             *)
(*                                                                         *)
(* The module models                                                       *)
(*   - the search handler of the web server (web/web.go): parameter        *)
(*     parsing, the request handed to the full-text index and the          *)
(*     pagination links (specification SearchSpec);                        *)
(*   - the storage backends (readers), the index builder's manifest and    *)
(*     the ticket repository (data/data.go): LoadIndex, GetTicket and      *)
(*     GetAttachment, with the web handlers that call them                 *)
(*     (specification DataSpec).                                           *)
(*                                                                         *)
(* Go's uint64 values are kept at their width: a value is four 16-bit      *)
(* limbs, least significant first, and the arithmetic wraps at 2^64.       *)
(***************************************************************************)
EXTENDS Integers, Sequences, FiniteSets, TLC

VARIABLES
    pc,                 \* position of the search request: idle, received, rendered
    req,                \* form values of the search request: q, start, num, order
    sr,                 \* the request handed to the full-text index, or NoSearch
    d,                  \* the data searchHandler hands to the template
    walk,               \* a reader paging through one result set by its links
    rtGitHubMap,        \* Data.rtGitHubMap
    Merged,             \* Data.Merged
    conns,              \* the requests being served, one goroutine each
    timed,              \* the requests inside http.TimeoutHandler
    backend,            \* "dir" (fileReader) or "zip" (zipReader)
    files,              \* the data directory / archive: file name -> content
    indexJSON,          \* content of index.json (the manifest), or NoFile
    stale,              \* a ticket file was replaced after index.json was written
    attachmentMetaMap,  \* Data.attachmentMetaMap
    ticketIndex,        \* Data.ticketIndex
    loaded,             \* "no", "ok", or "fatal" (LoadIndex failed, log.Fatal)
    res,                \* outcome of the last serving call
    bodies,             \* attachment id -> ContentType, Filename, OriginalContent
    dir,                \* the directory cmd/index reads: file name -> content
    mpc,                \* position of main of cmd/index
    globbed,            \* files: the result of filepath.Glob
    next,               \* position in files of the next unit to launch
    units,              \* the goroutines of readTickets, by position in files
    sem,                \* weight held of the semaphore
    wg,                 \* counter of the WaitGroup
    mu,                 \* holder of the mutex, 0 when it is free
    tickets,            \* the shared result list of readTickets
    manifest,           \* index.json as cmd/index wrote it, and whether this run wrote it
    bleve,              \* whether index.bleve exists, and whether this run wrote it
    run,                \* 1 in the first run of cmd/index, 2 in the second
    firstRun            \* the manifest of the first run

searchVars == <<pc, req, sr, d, walk>>

serveVars == <<rtGitHubMap, Merged, conns, timed>>

dataVars == <<backend, files, indexJSON, stale, attachmentMetaMap, ticketIndex,
              loaded, res, bodies>>
ingestVars == <<dir, mpc, globbed, next, units, sem, wg, mu, tickets, manifest, bleve,
                run, firstRun>>
vars == <<pc, req, sr, d, walk, rtGitHubMap, Merged, conns, timed, backend, files, indexJSON,
          stale, attachmentMetaMap, ticketIndex, loaded, res, bodies, dir, mpc, globbed,
          next, units, sem, wg, mu, tickets, manifest, bleve, run, firstRun>>

(***************************************************************************)
(* uint64 arithmetic                                                       *)
(***************************************************************************)
LimbBase == 2^16

U64Zero == <<0, 0, 0, 0>>

U64Max == <<LimbBase - 1, LimbBase - 1, LimbBase - 1, LimbBase - 1>>

\* a natural number below 2^31 as a uint64
U64FromNat(n) == <<n % LimbBase, (n \div LimbBase) % LimbBase, 0, 0>>

\* a + b, wrapping at 2^64
U64Add(a, b) ==
    LET s1 == a[1] + b[1]
        s2 == a[2] + b[2] + (s1 \div LimbBase)
        s3 == a[3] + b[3] + (s2 \div LimbBase)
        s4 == a[4] + b[4] + (s3 \div LimbBase)
    IN  <<s1 % LimbBase, s2 % LimbBase, s3 % LimbBase, s4 % LimbBase>>

\* a - b, wrapping at 2^64
U64Sub(a, b) ==
    LET d1 == a[1] - b[1]
        w1 == IF d1 < 0 THEN 1 ELSE 0
        d2 == a[2] - b[2] - w1
        w2 == IF d2 < 0 THEN 1 ELSE 0
        d3 == a[3] - b[3] - w2
        w3 == IF d3 < 0 THEN 1 ELSE 0
        d4 == a[4] - b[4] - w3
    IN  <<d1 % LimbBase, d2 % LimbBase, d3 % LimbBase, d4 % LimbBase>>

U64Lt(a, b) ==
    \/ a[4] < b[4]
    \/ a[4] = b[4] /\ a[3] < b[3]
    \/ a[4] = b[4] /\ a[3] = b[3] /\ a[2] < b[2]
    \/ a[4] = b[4] /\ a[3] = b[3] /\ a[2] = b[2] /\ a[1] < b[1]

U64Ge(a, b) == ~U64Lt(a, b)

U64Gt(a, b) == U64Lt(b, a)

\* n * 10, wrapping at 2^64
U64Mul10(a) ==
    LET m1 == a[1] * 10
        m2 == a[2] * 10 + (m1 \div LimbBase)
        m3 == a[3] * 10 + (m2 \div LimbBase)
        m4 == a[4] * 10 + (m3 \div LimbBase)
    IN  <<m1 % LimbBase, m2 % LimbBase, m3 % LimbBase, m4 % LimbBase>>

\* (quotient, remainder) of a by 10
U64DivMod10(a) ==
    LET x4 == a[4]
        x3 == (x4 % 10) * LimbBase + a[3]
        x2 == (x3 % 10) * LimbBase + a[2]
        x1 == (x2 % 10) * LimbBase + a[1]
    IN  [quo |-> <<x1 \div 10, x2 \div 10, x3 \div 10, x4 \div 10>>,
         rem |-> x1 % 10]

(***************************************************************************)
(* strconv.ParseUint(s, 10, 64) and fmt's %d                               *)
(* A string is the sequence of its bytes: '0'..'9' are 48..57, '-' is 45,  *)
(* 'x' is 120.                                                             *)
(***************************************************************************)
\* the string of the decimal digits ds
Dec(ds) == [i \in 1..Len(ds) |-> ds[i] + 48]

IsDigit(c) == c \in 48..57

\* maxUint64/10 + 1 = 1844674407370955162 = 0x199999999999999A
ParseCutoff == <<39322, 39321, 39321, 6553>>

RECURSIVE ParseLoop(_, _, _)
ParseLoop(s, i, n) ==
    IF i > Len(s) THEN [val |-> n, err |-> "nil"]
    ELSE IF ~IsDigit(s[i]) THEN [val |-> U64Zero, err |-> "syntax"]
    ELSE IF U64Ge(n, ParseCutoff) THEN [val |-> U64Max, err |-> "range"]
    ELSE LET n10 == U64Mul10(n)
             n1 == U64Add(n10, U64FromNat(s[i] - 48))
         IN  IF U64Lt(n1, n10) THEN [val |-> U64Max, err |-> "range"]
             ELSE ParseLoop(s, i + 1, n1)

ParseUint(s) ==
    IF s = <<>> THEN [val |-> U64Zero, err |-> "syntax"]
    ELSE ParseLoop(s, 1, U64Zero)

RECURSIVE FormatLoop(_)
FormatLoop(a) ==
    IF a = U64Zero THEN <<>>
    ELSE LET qr == U64DivMod10(a) IN Append(FormatLoop(qr.quo), qr.rem + 48)

\* fmt.Sprintf("%d", a) for a uint64
FormatUint(a) == IF a = U64Zero THEN <<48>> ELSE FormatLoop(a)

(***************************************************************************)
(* web.searchHandler                                                       *)
(***************************************************************************)
DefaultPageSize == 25

MaxPageSize == 100

PrevLimit == 999999999

\* longest generated value of the start and num form parameters
MaxParamLen == 2

RECURSIVE StringsUpTo(_, _)
StringsUpTo(alphabet, n) ==
    IF n = 0 THEN {<<>>}
    ELSE LET shorter == StringsUpTo(alphabet, n - 1)
         IN  shorter \cup {Append(s, c) : s \in shorter, c \in alphabet}

\* '0' and '1'
ParamAlphabet == {48, 49}

\* other form values: "x", "-1", "25", "100", "101", values around PrevLimit + 25,
\* 2^64 - 1, 2^64, and an overlong number followed by a letter
EdgeParams ==
    { <<120>>, <<45, 49>>, Dec(<<2, 5>>), Dec(<<1, 0, 0>>), Dec(<<1, 0, 1>>),
      Dec(<<1, 0, 0, 0, 0, 0, 0, 0, 2, 3>>),
      Dec(<<1, 0, 0, 0, 0, 0, 0, 0, 2, 4>>),
      Dec(<<1, 8, 4, 4, 6, 7, 4, 4, 0, 7, 3, 7, 0, 9, 5, 5, 1, 6, 1, 5>>),
      Dec(<<1, 8, 4, 4, 6, 7, 4, 4, 0, 7, 3, 7, 0, 9, 5, 5, 1, 6, 1, 6>>),
      Dec(<<9, 9, 9, 9, 9, 9, 9, 9, 9, 9, 9, 9, 9, 9, 9, 9, 9, 9, 9, 9>>) \o <<120>> }

\* r.FormValue("start"), r.FormValue("num"): an absent parameter is ""
ParamStrings == StringsUpTo(ParamAlphabet, MaxParamLen) \cup EdgeParams

\* r.FormValue("q")
Queries == {"", "*", "status:open"}

\* r.FormValue("order")
Orders == {"", "0", "1", "2"}

\* totals the full-text index may report
Totals == {ParseUint(s).val : s \in ParamStrings}

NoSearch == [query |-> "", size |-> U64Zero, from |-> U64Zero, sortBy |-> ""]

NoLink == [q |-> "", start |-> <<>>, num |-> <<>>, order |-> ""]

NoData == [Query |-> "", Error |-> "", Tickets |-> <<>>, Start |-> U64Zero,
           End |-> U64Zero, PageSize |-> U64Zero, Total |-> U64Zero, Next |-> NoLink,
           Prev |-> NoLink]

NoRequest == [q |-> "", start |-> <<>>, num |-> <<>>, order |-> ""]

\* url.QueryEscape on the queries of the model
QueryEscape(q) ==
    CASE q = "*" -> "%2A"
      [] q = "status:open" -> "status%3Aopen"
      [] OTHER -> q

\* d.Query
DisplayQuery(q) == IF q = "*" THEN "status:*" ELSE q

\* the query string handed to bleve.NewQueryStringQuery
EngineQuery(q) == q

\* start, _ := strconv.ParseUint(r.FormValue("start"), 10, 64): the error is dropped
StartOffset(s) == ParseUint(s).val

\* if q != "": the search engine is asked
RunsSearchAlways(q) == TRUE

RunsSearch(q) == q # ""

\* the clamp without its upper bound
EffectivePageSizeUnbounded(s) ==
    LET pageSize == ParseUint(s).val
    IN  IF pageSize = U64Zero THEN U64FromNat(DefaultPageSize) ELSE pageSize

\* pageSize after the clamp
EffectivePageSize(s) ==
    LET pageSize == ParseUint(s).val
    IN  IF pageSize = U64Zero THEN U64FromNat(DefaultPageSize)
        ELSE IF U64Gt(pageSize, U64FromNat(MaxPageSize)) THEN U64FromNat(DefaultPageSize)
        ELSE pageSize

\* the order parameter taken as it came
NormalizeOrderRaw(order) == order

NormalizeOrder(order) == IF order \in {"0", "1"} THEN order ELSE "1"

SortBy(order) == IF order = "0" THEN "id" ELSE "-id"

\* fmt.Sprintf("?q=%s&start=%d&num=%d&order=%s", ...)
Link(q, start, pageSize, order) ==
    [q |-> QueryEscape(q), start |-> FormatUint(start), num |-> FormatUint(pageSize),
     order |-> order]

NextLink(q, start, pageSize, order, total) ==
    IF U64Lt(U64Add(start, pageSize), total)
    THEN Link(q, U64Add(start, pageSize), pageSize, order)
    ELSE NoLink

PrevLink(q, start, pageSize, order) ==
    LET prev == U64Sub(start, pageSize)
    IN  IF U64Ge(prev, U64Zero) /\ U64Lt(prev, U64FromNat(PrevLimit))
        THEN Link(q, prev, pageSize, order)
        ELSE NoLink

\* the ids of the hits of one result page
HitLists == {<<>>, <<"7">>}

\* no reader is paging: each request meets an index of its own
NoWalk == [on |-> FALSE, total |-> 0, base |-> 0, pages |-> <<>>, origin |-> NoSearch,
           via |-> "none"]

\* searchResults.Total: while a reader pages, the index and its total stay the same
IndexTotals == IF walk.on THEN {U64FromNat(walk.total)} ELSE Totals

\* the responses of Index.SearchInContext: (nil, err) or (results, nil);
\* the searches of a paging reader succeed
SearchResponses ==
    {[ok |-> FALSE, Total |-> U64Zero, Hits |-> <<>>] : e \in {walk.on} \ {TRUE}} \cup
    {[ok |-> TRUE, Total |-> t, Hits |-> h] : t \in IndexTotals, h \in HitLists}

\* the responses to a request for size hits from offset from: the index
\* returns hits only from an offset below the total, and at most size of them
EngineResponses(from, size) ==
    { r \in SearchResponses :
        r.Hits # <<>> => (U64Lt(from, r.Total) /\ U64Ge(size, U64FromNat(Len(r.Hits)))) }

\* d.Start = start + 1
DisplayStart(start) == U64Add(start, U64FromNat(1))

\* d.End without the clamp to the total
DisplayEndUnclamped(start, pageSize, total) == U64Add(start, pageSize)

\* d.End = start + pageSize, and d.Total when that is larger
DisplayEnd(start, pageSize, total) ==
    IF U64Gt(U64Add(start, pageSize), total) THEN total ELSE U64Add(start, pageSize)

SearchIdle == pc = "idle" /\ req = NoRequest /\ sr = NoSearch /\ d = NoData /\ walk = NoWalk

\* no request for a ticket or an attachment is modelled
ServeUnused == rtGitHubMap = <<>> /\ Merged = <<>> /\ conns = <<>> /\ timed = <<>>

\* cmd/index does not run
IngestUnused ==
    /\ dir = <<>> /\ mpc = "off" /\ globbed = <<>> /\ next = 0 /\ units = <<>>
    /\ sem = 0 /\ wg = 0 /\ mu = 0 /\ tickets = <<>> /\ manifest = <<>>
    /\ bleve = <<>> /\ run = 0 /\ firstRun = <<>>

\* the HTTP layer delivers a request for /Search/Simple.html
ReceiveSearch ==
    /\ pc = "idle"
    /\ \E q \in Queries, start \in ParamStrings, num \in ParamStrings, order \in Orders :
          req' = [q |-> q, start |-> start, num |-> num, order |-> order]
    /\ pc' = "received"
    /\ UNCHANGED <<sr, d, walk>>
    /\ UNCHANGED <<dataVars, serveVars, ingestVars>>

searchHandler ==
    /\ pc = "received"
    /\ pc' = "rendered"
    /\ UNCHANGED <<req, walk>>
    /\ UNCHANGED <<dataVars, serveVars, ingestVars>>
    /\ LET q == req.q
           start == StartOffset(req.start)
           pageSize == EffectivePageSize(req.num)
           order == NormalizeOrder(req.order)
           base == [NoData EXCEPT !.Query = DisplayQuery(q)]
       IN  IF ~RunsSearch(q)
           THEN sr' = NoSearch /\ d' = base
           ELSE \* int(pageSize) and int(start) keep the 64 bits of the value
                /\ sr' = [query |-> EngineQuery(q), size |-> pageSize, from |-> start,
                          sortBy |-> SortBy(order)]
                /\ \E resp \in EngineResponses(start, pageSize) :
                      IF ~resp.ok
                      THEN d' = [base EXCEPT !.Error = "search error"]
                      ELSE d' = [base EXCEPT
                                       !.Tickets = resp.Hits,
                                       !.Total = resp.Total,
                                       !.Start = DisplayStart(start),
                                       !.PageSize = pageSize,
                                       !.End = DisplayEnd(start, pageSize, resp.Total),
                                       !.Next = NextLink(q, start, pageSize, order,
                                                         resp.Total),
                                       !.Prev = PrevLink(q, start, pageSize, order)]

DataUnused ==
    /\ backend = "dir" /\ files = <<>> /\ indexJSON = <<>> /\ stale = FALSE
    /\ attachmentMetaMap = <<>> /\ ticketIndex = <<>> /\ loaded = "off" /\ res = <<>>
    /\ bodies = <<>>

SearchInit == SearchIdle /\ ServeUnused /\ DataUnused /\ IngestUnused

SearchNext == ReceiveSearch \/ searchHandler

SearchSpec == SearchInit /\ [][SearchNext]_vars

(***************************************************************************)
(* A reader pages through one result set by the Next and Previous links of *)
(* the result pages.                                                       *)
(***************************************************************************)
\* largest total of a result set paged from its first page
MaxTotal == 12

\* an offset some pages before PrevLimit, a multiple of these page sizes
ResumeOffset == PrevLimit - 99

ResumeSizes == {10, 25, 100}

\* the total of the result set paged from ResumeOffset
ResumeTotal == PrevLimit + 151

\* r.FormValue("q") of a request made from a link: the inverse of url.QueryEscape
QueryUnescape(e) ==
    CASE e = "%2A" -> "*"
      [] e = "status%3Aopen" -> "status:open"
      [] OTHER -> e

\* the request a browser sends for a link of the result page
FollowLink(link) ==
    [q |-> QueryUnescape(link.q), start |-> link.start, num |-> link.num,
     order |-> link.order]

\* the first page of a result set, or a page the links lead to after
\* ResumeOffset / pageSize steps
WalkStart ==
    /\ pc = "idle"
    /\ ~walk.on
    /\ \/ \E q \in Queries \ {""}, start \in {<<>>, <<48>>}, num \in ParamStrings,
             order \in Orders, t \in 1..MaxTotal :
             /\ req' = [q |-> q, start |-> start, num |-> num, order |-> order]
             /\ walk' = [NoWalk EXCEPT !.on = TRUE, !.total = t, !.via = "start"]
       \/ \E q \in Queries \ {""}, size \in ResumeSizes, order \in {"0", "1"} :
             /\ req' = FollowLink(Link(q, U64FromNat(ResumeOffset), U64FromNat(size),
                                        order))
             /\ walk' = [NoWalk EXCEPT !.on = TRUE, !.total = ResumeTotal,
                                       !.base = ResumeOffset, !.via = "start"]
    /\ pc' = "received"
    /\ UNCHANGED <<sr, d>>
    /\ UNCHANGED <<dataVars, serveVars, ingestVars>>

\* the reader follows the Next link of the page shown
FollowNext ==
    /\ pc = "rendered"
    /\ walk.via \in {"start", "next"}
    /\ d.Next # NoLink
    /\ req' = FollowLink(d.Next)
    /\ walk' = [walk EXCEPT !.pages = Append(@, [S |-> sr.from, E |-> d.End]),
                            !.origin = sr, !.via = "next"]
    /\ pc' = "received"
    /\ UNCHANGED <<sr, d>>
    /\ UNCHANGED <<dataVars, serveVars, ingestVars>>

\* the reader follows the Previous link of a page reached by a Next link
FollowPrev ==
    /\ pc = "rendered"
    /\ walk.via = "next"
    /\ d.Prev # NoLink
    /\ req' = FollowLink(d.Prev)
    /\ walk' = [walk EXCEPT !.via = "prev"]
    /\ pc' = "received"
    /\ UNCHANGED <<sr, d>>
    /\ UNCHANGED <<dataVars, serveVars, ingestVars>>

WalkNext == WalkStart \/ searchHandler \/ FollowNext \/ FollowPrev

WalkSpec == SearchInit /\ [][WalkNext]_vars

(***************************************************************************)
(* The data directory.  A ticket file <id>.json holds one JSON value:      *)
(* the ticket object the exporter wrote, or (a damaged file) an array,     *)
(* null, or bytes that are no JSON.  A ticket object is kept as the part   *)
(* the programs read: Id and Transactions[i].Attachments[j].Id (here the   *)
(* attachment is its id).                                                  *)
(***************************************************************************)
TicketIds == {"1", "2"}

AttIds == {"101", "102"}

\* transactions plus attachments of one ticket document
MaxItems == 2

\* the transaction lists with at most b transactions and attachments
RECURSIVE TxLists(_)
TxLists(b) ==
    IF b = 0 THEN {<<>>}
    ELSE {<<>>} \cup
         UNION { { <<[Attachments |-> atts]>> \o rest : rest \in TxLists(b - 1 - Len(atts)) }
                 : atts \in StringsUpTo(AttIds, b - 1) }

NoFile == [kind |-> "absent", Id |-> "", Transactions |-> <<>>]

Damaged == { [kind |-> k, Id |-> "", Transactions |-> <<>>] : k \in {"bad", "array", "null"} }

\* what the exporter writes to <id>.json
TicketObjects(id) ==
    { [kind |-> "object", Id |-> id, Transactions |-> txs] : txs \in TxLists(MaxItems) }

FileContents(id) == {NoFile} \cup Damaged \cup TicketObjects(id)

NoManifest == [kind |-> "absent", entries |-> <<>>]

(***************************************************************************)
(* readers: fileReader and zipReader.  A logical name is the sequence of   *)
(* its path components: "1" is <<"1">> and "1.json/x" is <<"1.json", "x">>.*)
(***************************************************************************)
\* the ids a request may name
RequestIds == {<<id>> : id \in TicketIds} \cup {<<"9">>, <<"1.json", "x">>}

\* fmt.Sprintf("%s.json", id), string(id) + ".json"
JSONName(id) == [id EXCEPT ![Len(id)] = @ \o ".json"]

\* the regular files of the data directory, by name
IsFile(fs, ix, name) ==
    \/ \E id \in TicketIds : name = id \o ".json" /\ fs[id].kind # "absent"
    \/ name = "index.json" /\ ix.kind # "absent"

FileContent(fs, name) == CHOOSE c \in {fs[id] : id \in TicketIds} :
                            \E id \in TicketIds : name = id \o ".json" /\ c = fs[id]

\* os.Open(filepath.Join(fr.Root, name)): the error, "nil" when the file opens
fileReaderGetFile(fs, ix, name) ==
    IF Len(name) = 1
    THEN IF IsFile(fs, ix, name[1]) THEN "nil" ELSE "ENOENT"
    ELSE IF IsFile(fs, ix, name[1]) THEN "ENOTDIR" ELSE "ENOENT"

\* zr.Files[fn]: the archive's table holds the full names of its entries
zipReaderGetFile(fs, ix, name) ==
    IF Len(name) = 1 /\ IsFile(fs, ix, name[1]) THEN "nil" ELSE "zip: not found"

GetFile(b, fs, ix, name) ==
    IF b = "zip" THEN zipReaderGetFile(fs, ix, name) ELSE fileReaderGetFile(fs, ix, name)

GetJSON(b, fs, ix, id) == GetFile(b, fs, ix, JSONName(id))

\* errors.Is(err, os.ErrNotExist)
ErrIsNotExist(err) == err \in {"ENOENT", "zip: not found"}

\* strings.Contains(err.Error(), "no such file or directory")
ErrTextNoSuchFile(err) == err \in {"ENOENT", "getTIcket: ENOENT"}

\* json.Unmarshal(b, &d) with d an interface{}
parseTicket(c) ==
    IF c.kind = "bad" THEN [err |-> "json", t |-> NoFile] ELSE [err |-> "nil", t |-> c]

\* fileReader.GetTicket / zipReader.GetTicket.  The deferred r.Close() of
\* fileReader runs on a nil *os.File when the open failed: it returns an error.
readerGetTicket(b, fs, ix, id) ==
    LET err == GetJSON(b, fs, ix, id)
    IN  IF err # "nil" THEN [err |-> err, t |-> NoFile]
        ELSE parseTicket(FileContent(fs, JSONName(id)[1]))

(***************************************************************************)
(* index builder: processFile, readTickets, writeIndexJSON                 *)
(***************************************************************************)
NoTicket == [Id |-> "", Transactions |-> <<>>]

\* every file parses
processFileLenient(c) ==
    IF c.kind = "object"
    THEN [err |-> "nil", t |-> [Id |-> c.Id, Transactions |-> c.Transactions]]
    ELSE [err |-> "nil", t |-> NoTicket]

\* ioutil.ReadFile and json.Unmarshal into a ticket struct
processFile(c) ==
    CASE c.kind = "object" -> [err |-> "nil", t |-> [Id |-> c.Id, Transactions |-> c.Transactions]]
      [] c.kind = "null" -> [err |-> "nil", t |-> NoTicket]
      [] c.kind = "unreadable" -> [err |-> "read", t |-> NoTicket]
      [] OTHER -> [err |-> "json", t |-> NoTicket]

\* strconv.Atoi on the ids of the model, its error ignored
Atoi(id) == CASE id = "1" -> 1 [] id = "2" -> 2 [] id = "-1" -> 0 - 1 [] OTHER -> 0

\* the ids strconv.Atoi parses without an error
AtoiOk(id) == id \in {"-1", "0", "1", "2"}

\* the files filepath.Glob finds and fileRe matches
MatchingFiles(fs) == {id \in TicketIds : fs[id].kind # "absent"}

\* sort.Slice by numeric id: tickets of equal id are identical in the model
RECURSIVE SortById(_)
SortById(ids) ==
    IF ids = {} THEN <<>>
    ELSE LET m == CHOOSE x \in ids : \A y \in ids : Atoi(x[1]) <= Atoi(y[1])
         IN  <<m[2]>> \o SortById(ids \ {m})

\* readTickets: log.Fatalf on the first file that fails
readTickets(fs) ==
    IF \E id \in MatchingFiles(fs) : processFile(fs[id]).err # "nil"
    THEN [fatal |-> TRUE, tickets |-> <<>>]
    ELSE [fatal |-> FALSE,
          tickets |-> SortById({<<IF processFile(fs[id]).t.Id = "" THEN "0:" \o id
                                    ELSE processFile(fs[id]).t.Id,
                                  processFile(fs[id]).t>> : id \in MatchingFiles(fs)})]

(***************************************************************************)
(* data.Data: LoadIndex, GetTicket, GetAttachment                          *)
(***************************************************************************)
RECURSIVE processAttachments(_, _, _, _, _)
processAttachments(m, tid, trOff, atts, attOff) ==
    IF attOff >= Len(atts) THEN m
    ELSE processAttachments(
            (atts[attOff + 1] :> [TicketID |-> tid, TransactionOffset |-> trOff,
                                  AttachmentOffset |-> attOff]) @@ m,
            tid, trOff, atts, attOff + 1)

RECURSIVE processTransactions(_, _, _, _)
processTransactions(m, tid, trs, trOff) ==
    IF trOff >= Len(trs) THEN m
    ELSE processTransactions(
            processAttachments(m, tid, trOff, trs[trOff + 1].Attachments, 0),
            tid, trs, trOff + 1)

\* no attachment of the entry is recorded
processIndexTicketEmpty(m, t) == m

\* always returns nil
processIndexTicket(m, t) == processTransactions(m, t.Id, t.Transactions, 0)

RECURSIVE LoadEntries(_, _, _)
LoadEntries(m, entries, i) ==
    IF i > Len(entries) THEN m
    ELSE LoadEntries(processIndexTicket(m, entries[i]), entries, i + 1)

\* the attachmentMetaMap LoadIndex builds from the entries of index.json
LoadIndex(entries) == LoadEntries(<<>>, entries, 1)

(***************************************************************************)
(* The bytes of index.json as the tokens json.Decoder sees: the delimiters *)
(* "[", "]", "{", "}" and whole values, which are a manifest entry (an     *)
(* object of the ticket shape), null, or a number.                         *)
(***************************************************************************)
Tok(name) == [tok |-> name, v |-> NoTicket]

EntryTokens(entries) == [i \in 1..Len(entries) |-> [tok |-> "entry", v |-> entries[i]]]

\* index.json is replaced by: {}, the number 5, an empty file, the array cut
\* before its closing bracket, the array with a number or a null appended
DamagedManifests(entries) ==
    { [kind |-> k, entries |-> entries] :
        k \in {"emptyobject", "scalar", "empty", "truncated", "badelement", "nullelement"} }

ManifestTokens(ix) ==
    CASE ix.kind = "array" -> <<Tok("[")>> \o EntryTokens(ix.entries) \o <<Tok("]")>>
      [] ix.kind = "emptyobject" -> <<Tok("{"), Tok("}")>>
      [] ix.kind = "scalar" -> <<Tok("number")>>
      [] ix.kind = "truncated" -> <<Tok("[")>> \o EntryTokens(ix.entries)
      [] ix.kind = "badelement" ->
            <<Tok("[")>> \o EntryTokens(ix.entries) \o <<Tok("number"), Tok("]")>>
      [] ix.kind = "nullelement" ->
            <<Tok("[")>> \o EntryTokens(ix.entries) \o <<Tok("null"), Tok("]")>>
      [] OTHER -> <<>>

\* Decoder.Token: the next token; a closing delimiter must match the
\* container the decoder is in (open is "[", "{" or "" at the top level)
DecoderToken(ts, open) ==
    IF ts = <<>> THEN [err |-> "EOF", rest |-> ts, open |-> open]
    ELSE CASE Head(ts).tok \in {"[", "{"} ->
                [err |-> "nil", rest |-> Tail(ts), open |-> Head(ts).tok]
           [] Head(ts).tok = "]" ->
                [err |-> IF open = "[" THEN "nil" ELSE "syntax", rest |-> Tail(ts),
                 open |-> ""]
           [] Head(ts).tok = "}" ->
                [err |-> IF open = "{" THEN "nil" ELSE "syntax", rest |-> Tail(ts),
                 open |-> ""]
           [] OTHER -> [err |-> "nil", rest |-> Tail(ts), open |-> open]

\* Decoder.More: there is a next byte and it is neither ']' nor '}'
DecoderMore(ts) == ts # <<>> /\ Head(ts).tok \notin {"]", "}"}

\* Decoder.Decode(&t) with t an IndexTicket: null leaves t at its zero value
DecoderDecode(ts) ==
    CASE Head(ts).tok = "entry" -> [err |-> "nil", t |-> Head(ts).v]
      [] Head(ts).tok = "null" -> [err |-> "nil", t |-> NoTicket]
      [] OTHER -> [err |-> "json", t |-> NoTicket]

\* the loop of LoadIndex: for j.More() { j.Decode(&t); d.processIndexTicket(&t) }
RECURSIVE DecodeEntries(_, _)
DecodeEntries(ts, acc) ==
    IF ~DecoderMore(ts) THEN [err |-> "nil", entries |-> acc, rest |-> ts]
    ELSE LET r == DecoderDecode(ts)
         IN  IF r.err # "nil" THEN [err |-> r.err, entries |-> acc, rest |-> ts]
             ELSE DecodeEntries(Tail(ts), Append(acc, r.t))

\* Data.LoadIndex on the bytes of index.json: its error and the entries it processed
LoadIndexFile(ix) ==
    LET first == DecoderToken(ManifestTokens(ix), "")
    IN  IF first.err # "nil" THEN [err |-> first.err, entries |-> <<>>]
        ELSE LET body == DecodeEntries(first.rest, <<>>)
             IN  IF body.err # "nil" THEN [err |-> body.err, entries |-> body.entries]
                 ELSE [err |-> DecoderToken(body.rest, first.open).err,
                       entries |-> body.entries]

NoDoc == [kind |-> "absent", Id |-> "", Transactions |-> <<>>, GitHubIssue |-> ""]

\* Data.GetTicket: outcome is "ok", "error" or "panic"
DataGetTicket(b, fs, ix, id) ==
    LET r == readerGetTicket(b, fs, ix, id)
    IN  IF r.err # "nil" THEN [outcome |-> "error", err |-> r.err, doc |-> NoDoc]
        ELSE IF r.t.kind # "object"
        THEN [outcome |-> "panic", err |-> "reflect: SetMapIndex", doc |-> NoDoc]
        ELSE [outcome |-> "ok", err |-> "nil",
              doc |-> [kind |-> "object", Id |-> r.t.Id, Transactions |-> r.t.Transactions,
                       GitHubIssue |-> ""]]

\* Data.GetAttachment, up to the attachment it finds
DataGetAttachment(b, fs, ix, m, id) ==
    IF id \notin DOMAIN m
    THEN [outcome |-> "error", err |-> "can't find metadata", att |-> "", doc |-> NoDoc]
    ELSE LET meta == m[id]
             tick == DataGetTicket(b, fs, ix, <<meta.TicketID>>)
         IN  IF tick.outcome = "panic"
             THEN [outcome |-> "panic", err |-> tick.err, att |-> "", doc |-> NoDoc]
             ELSE IF tick.outcome = "error"
             THEN [outcome |-> "error", err |-> "getTIcket: " \o tick.err, att |-> "",
                   doc |-> NoDoc]
             ELSE LET ts == tick.doc.Transactions
                  IN  IF meta.TransactionOffset >= Len(ts)
                      THEN [outcome |-> "panic", err |-> "index out of range",
                            att |-> "", doc |-> tick.doc]
                      ELSE LET atts == ts[meta.TransactionOffset + 1].Attachments
                           IN  IF meta.AttachmentOffset >= Len(atts)
                               THEN [outcome |-> "panic", err |-> "index out of range",
                                     att |-> "", doc |-> tick.doc]
                               ELSE [outcome |-> "ok", err |-> "nil",
                                     att |-> atts[meta.AttachmentOffset + 1],
                                     doc |-> tick.doc]

(***************************************************************************)
(* Attachment bodies.  A JSON value of an attachment object is a string or *)
(* null (the exporter writes null for a column that is not set).  A        *)
(* content type is the sequence of its characters, a content the sequence  *)
(* of its bytes: 'A' is 65, 'Q' is 81, '=' is 61, '!' is 33 and a line     *)
(* feed is 10.                                                             *)
(***************************************************************************)
JSONString(s) == [str |-> TRUE, s |-> s]

JSONNull == [str |-> FALSE, s |-> <<>>]

\* a Filename that is null
NoFilename == [str |-> FALSE, s |-> ""]

TextPrefix == <<"t", "e", "x", "t", "/">>

\* text/plain, text/html, image/png, Text/plain, text
ContentTypes ==
    { TextPrefix \o <<"p", "l", "a", "i", "n">>,
      TextPrefix \o <<"h", "t", "m", "l">>,
      <<"i", "m", "a", "g", "e", "/", "p", "n", "g">>,
      <<"T", "e", "x", "t", "/", "p", "l", "a", "i", "n">>,
      <<"t", "e", "x", "t">> }

\* longest generated OriginalContent
MaxContentLen == 4

ContentAlphabet == {65, 81, 61, 33, 10}

\* "QUFB", "QUE=", "/+8=", "QQ==" with a line feed, "QQ=" and "=" cut by a
\* line feed, "QUFBQUFB", "QUFBQQ==", "QQ==QUFB"
EdgeContents ==
    { <<81, 85, 70, 66>>, <<81, 85, 69, 61>>, <<47, 43, 56, 61>>,
      <<81, 81, 61, 61, 10>>, <<81, 81, 61, 10, 61>>,
      <<81, 85, 70, 66, 81, 85, 70, 66>>, <<81, 85, 70, 66, 81, 81, 61, 61>>,
      <<81, 81, 61, 61, 81, 85, 70, 66>> }

Contents == StringsUpTo(ContentAlphabet, MaxContentLen) \cup EdgeContents

\* the attachment objects dump_attachment writes
Bodies ==
    { [ContentType |-> ct, Filename |-> fn, OriginalContent |-> oc] :
        ct \in {JSONString(t) : t \in ContentTypes} \cup {JSONNull},
        fn \in {JSONString("a.txt"), NoFilename},
        oc \in {JSONString(c) : c \in Contents} \cup {JSONNull} }

DefaultBody ==
    [ContentType |-> JSONString(TextPrefix \o <<"p", "l", "a", "i", "n">>),
     Filename |-> JSONString("a.txt"), OriginalContent |-> JSONString(<<65>>)]

\* strings.HasPrefix
HasPrefix(s, prefix) == Len(s) >= Len(prefix) /\ SubSeq(s, 1, Len(prefix)) = prefix

\* the decode map of base64.StdEncoding: -1 for a byte outside the alphabet
B64Value(c) ==
    CASE c \in 65..90 -> c - 65
      [] c \in 97..122 -> c - 71
      [] c \in 48..57 -> c + 4
      [] c = 43 -> 62
      [] c = 47 -> 63
      [] OTHER -> -1

\* the first position from si on that holds neither '\n' nor '\r'
RECURSIVE SkipNewlines(_, _)
SkipNewlines(src, si) ==
    IF si <= Len(src) /\ src[si] \in {10, 13} THEN SkipNewlines(src, si + 1) ELSE si

Corrupt == [err |-> "illegal base64 data", si |-> 0, vals |-> <<>>]

\* Encoding.decodeQuantum: up to four 6-bit values from position si on
RECURSIVE ReadQuantum(_, _, _)
ReadQuantum(src, si, vals) ==
    IF Len(vals) = 4 THEN [err |-> "nil", si |-> si, vals |-> vals]
    ELSE IF si > Len(src)
    THEN IF vals = <<>> THEN [err |-> "nil", si |-> si, vals |-> vals] ELSE Corrupt
    ELSE IF B64Value(src[si]) >= 0
    THEN ReadQuantum(src, si + 1, Append(vals, B64Value(src[si])))
    ELSE IF src[si] \in {10, 13} THEN ReadQuantum(src, si + 1, vals)
    ELSE IF src[si] # 61 \/ Len(vals) < 2 THEN Corrupt
    ELSE LET second == SkipNewlines(src, si + 1)
             afterPad == IF Len(vals) = 3 THEN si + 1
                         ELSE IF second <= Len(src) /\ src[second] = 61 THEN second + 1
                         ELSE 0
         IN  IF afterPad = 0 \/ SkipNewlines(src, afterPad) <= Len(src) THEN Corrupt
             ELSE [err |-> "nil", si |-> Len(src) + 1, vals |-> vals]

\* the bytes of a quantum of 2, 3 or 4 values; the unused low bits are dropped
QuantumBytes(vals) ==
    LET v(i) == IF i <= Len(vals) THEN vals[i] ELSE 0
        val == ((v(1) * 64 + v(2)) * 64 + v(3)) * 64 + v(4)
        all == <<val \div 65536, (val \div 256) % 256, val % 256>>
    IN  IF Len(vals) = 0 THEN <<>> ELSE SubSeq(all, 1, Len(vals) - 1)

RECURSIVE Base64DecodeFrom(_, _, _)
Base64DecodeFrom(src, si, acc) ==
    IF si > Len(src) THEN [err |-> "nil", bytes |-> acc]
    ELSE LET q == ReadQuantum(src, si, <<>>)
         IN  IF q.err # "nil" THEN [err |-> q.err, bytes |-> acc]
             ELSE Base64DecodeFrom(src, q.si, acc \o QuantumBytes(q.vals))

\* base64.StdEncoding.DecodeString
Base64Decode(src) == Base64DecodeFrom(src, 1, <<>>)

NoContent == [outcome |-> "", err |-> "nil", filename |-> "", contentType |-> <<>>,
              content |-> <<>>]

\* Data.GetAttachment from the attachment object on: the type assertions
\* panic on a value that is no string
attachmentContent(att) ==
    IF ~att.ContentType.str \/ ~att.Filename.str \/ ~att.OriginalContent.str
    THEN [NoContent EXCEPT !.outcome = "panic", !.err = "interface conversion"]
    ELSE IF HasPrefix(att.ContentType.s, TextPrefix)
    THEN [NoContent EXCEPT !.outcome = "ok", !.filename = att.Filename.s,
                           !.contentType = att.ContentType.s,
                           !.content = att.OriginalContent.s]
    ELSE LET dec == Base64Decode(att.OriginalContent.s)
         IN  IF dec.err # "nil"
             THEN [NoContent EXCEPT !.outcome = "error",
                                    !.err = "can't decode attachment"]
             ELSE [NoContent EXCEPT !.outcome = "ok", !.filename = att.Filename.s,
                                    !.contentType = att.ContentType.s,
                                    !.content = dec.bytes]

\* web.isNotFound
isNotFound(err) == ErrIsNotExist(err) \/ (err # "nil" /\ ErrTextNoSuchFile(err))

NoResult == [op |-> "", tid |-> <<>>, aid |-> "", outcome |-> "", err |-> "nil",
             status |-> 0, att |-> "", doc |-> NoDoc, stored |-> NoFile,
             filename |-> "", contentType |-> <<>>, content |-> <<>>]

DataInit ==
    /\ SearchIdle
    /\ ServeUnused
    /\ IngestUnused
    /\ backend \in {"dir", "zip"}
    /\ files \in [TicketIds -> UNION {FileContents(id) : id \in TicketIds}]
    /\ \A id \in TicketIds : files[id] \in FileContents(id)
    /\ indexJSON = NoManifest
    /\ stale = FALSE
    /\ attachmentMetaMap = <<>>
    /\ ticketIndex = <<>>
    /\ loaded = "no"
    /\ res = NoResult
    /\ bodies = [a \in AttIds |-> DefaultBody]

\* cmd/index main: readTickets, then writeIndexJSON
IndexMain ==
    /\ loaded = "no"
    /\ indexJSON = NoManifest
    /\ ~readTickets(files).fatal
    /\ indexJSON' = [kind |-> "array", entries |-> readTickets(files).tickets]
    /\ UNCHANGED <<backend, files, stale, attachmentMetaMap, ticketIndex, loaded, res>>
    /\ UNCHANGED <<searchVars, serveVars, bodies, ingestVars>>

\* a ticket file is replaced after the index was built (the data files are
\* synced from elsewhere), before the server starts
ReplaceFile ==
    /\ loaded = "no"
    /\ indexJSON # NoManifest
    /\ ~stale
    /\ \E id \in TicketIds : \E c \in FileContents(id) :
          /\ c # files[id]
          /\ files' = [files EXCEPT ![id] = c]
    /\ stale' = TRUE
    /\ UNCHANGED <<backend, indexJSON, attachmentMetaMap, ticketIndex, loaded, res>>
    /\ UNCHANGED <<searchVars, serveVars, bodies, ingestVars>>

\* index.json is replaced after the index was built, before the server starts
ReplaceManifest ==
    /\ loaded = "no"
    /\ indexJSON.kind = "array"
    /\ indexJSON' \in DamagedManifests(indexJSON.entries)
    /\ UNCHANGED <<backend, files, stale, attachmentMetaMap, ticketIndex, loaded, res>>
    /\ UNCHANGED <<searchVars, serveVars, bodies, ingestVars>>

\* data.New: newIndex reads index.json and calls LoadIndex; an error of
\* LoadIndex is log.Fatal
newIndex ==
    /\ loaded = "no"
    /\ IF GetJSON(backend, files, indexJSON, <<"index">>) # "nil"
          \/ LoadIndexFile(indexJSON).err # "nil"
       THEN /\ loaded' = "fatal"
            /\ UNCHANGED <<attachmentMetaMap, ticketIndex>>
       ELSE /\ loaded' = "ok"
            /\ attachmentMetaMap' = LoadIndex(LoadIndexFile(indexJSON).entries)
            /\ ticketIndex' = LoadIndexFile(indexJSON).entries
    /\ UNCHANGED <<backend, files, indexJSON, stale, res>>
    /\ UNCHANGED <<searchVars, serveVars, bodies, ingestVars>>

\* /Ticket/Display.html?id=...
ticketHandler ==
    /\ loaded = "ok"
    /\ \E id \in RequestIds :
          LET r == DataGetTicket(backend, files, indexJSON, id)
          IN  res' = [NoResult EXCEPT
                        !.op = "GetTicket", !.tid = id, !.outcome = r.outcome,
                        !.err = r.err, !.doc = r.doc,
                        !.status = IF r.outcome = "panic" THEN 0
                                   ELSE IF isNotFound(r.err) THEN 404
                                   ELSE IF r.err # "nil" THEN 500 ELSE 200,
                        !.stored = IF Len(id) = 1 /\ id[1] \in TicketIds
                                   THEN files[id[1]] ELSE NoFile]
    /\ UNCHANGED <<backend, files, indexJSON, stale, attachmentMetaMap, ticketIndex, loaded>>
    /\ UNCHANGED <<searchVars, serveVars, bodies, ingestVars>>

\* /Ticket/Attachment/{transactionID}/{attachmentID}/{filename}
attachHandler ==
    /\ loaded = "ok"
    /\ \E id \in AttIds \cup {"999"} :
          LET r == DataGetAttachment(backend, files, indexJSON, attachmentMetaMap, id)
              c == IF r.outcome = "ok" THEN attachmentContent(bodies[r.att])
                   ELSE [NoContent EXCEPT !.outcome = r.outcome, !.err = r.err]
          IN  res' = [NoResult EXCEPT
                        !.op = "GetAttachment", !.aid = id, !.outcome = c.outcome,
                        !.err = c.err, !.att = r.att, !.doc = r.doc,
                        !.filename = c.filename, !.contentType = c.contentType,
                        !.content = c.content,
                        !.status = IF c.outcome = "panic" THEN 0
                                   ELSE IF c.err # "nil" THEN 500 ELSE 200]
    /\ UNCHANGED <<backend, files, indexJSON, stale, attachmentMetaMap, ticketIndex, loaded>>
    /\ UNCHANGED <<searchVars, serveVars, bodies, ingestVars>>

DataNext == IndexMain \/ ReplaceFile \/ ReplaceManifest \/ newIndex \/ ticketHandler \/ attachHandler

DataSpec == DataInit /\ [][DataNext]_vars

(***************************************************************************)
(* Serving attachments: ticket 1 holds attachment 101 at                   *)
(* Transactions[0].Attachments[0], the index is built and loaded, and the  *)
(* attachment object of 101 is any of Bodies.                              *)
(***************************************************************************)
ContentFiles ==
    [id \in TicketIds |->
        IF id = "1"
        THEN [kind |-> "object", Id |-> "1",
              Transactions |-> <<[Attachments |-> <<"101">>]>>]
        ELSE NoFile]

ContentInit ==
    /\ SearchIdle
    /\ ServeUnused
    /\ IngestUnused
    /\ backend \in {"dir", "zip"}
    /\ files = ContentFiles
    /\ indexJSON = [kind |-> "array", entries |-> readTickets(ContentFiles).tickets]
    /\ stale = FALSE
    /\ attachmentMetaMap = LoadIndex(LoadIndexFile(indexJSON).entries)
    /\ ticketIndex = LoadIndexFile(indexJSON).entries
    /\ loaded = "ok"
    /\ res = NoResult
    /\ \E b \in Bodies : bodies = [a \in AttIds |-> IF a = "101" THEN b ELSE DefaultBody]

ContentNext == attachHandler

ContentSpec == ContentInit /\ [][ContentNext]_vars

(***************************************************************************)
(* The server after data.New: net/http runs each request in a goroutine of *)
(* its own.  GetTicket and GetAttachment are followed statement by         *)
(* statement; the value parseTicket returns belongs to the calling request.*)
(***************************************************************************)
\* requests served at once
MaxRequests == 2

Conns == 1..MaxRequests

NoMeta == [TicketID |-> "", TransactionOffset |-> 0, AttachmentOffset |-> 0]

NoConn == [op |-> "", id |-> "", pc |-> "idle", tid |-> "", t |-> NoFile, g |-> "",
           meta |-> NoMeta, out |-> ""]

\* a map read that adds the missing key
MapAfterInsertingLookup(m, id) ==
    IF id \in DOMAIN m THEN m ELSE [k \in DOMAIN m \cup {id} |-> IF k = id THEN "" ELSE m[k]]

\* g, _ := d.rtGitHubMap[id]: a read leaves a Go map as it is
MapAfterLookup(m, id) == m

ServeFiles ==
    { [id \in TicketIds |-> IF id = "1" THEN ContentFiles["1"] ELSE c] :
        c \in {NoFile, [kind |-> "object", Id |-> "2", Transactions |-> <<>>],
               [kind |-> "array", Id |-> "", Transactions |-> <<>>]} }

\* rtgithub.csv and merged.json are optional
GitHubMaps == {<<>>, [id \in {"1"} |-> "gh-7"]}

MergedMaps == {<<>>, [id \in {"2"} |-> "1"]}

ServeInit ==
    /\ SearchIdle
    /\ IngestUnused
    /\ backend \in {"dir", "zip"}
    /\ files \in ServeFiles
    /\ indexJSON = [kind |-> "array", entries |-> readTickets(ContentFiles).tickets]
    /\ stale = FALSE
    /\ attachmentMetaMap = LoadIndex(LoadIndexFile(indexJSON).entries)
    /\ ticketIndex = LoadIndexFile(indexJSON).entries
    /\ loaded = "ok"
    /\ res = NoResult
    /\ bodies = [a \in AttIds |-> DefaultBody]
    /\ rtGitHubMap \in GitHubMaps
    /\ Merged \in MergedMaps
    /\ conns = [c \in Conns |-> NoConn]
    /\ timed = <<>>

\* what a step of a request leaves alone
ServeFrame ==
    /\ UNCHANGED <<backend, files, indexJSON, stale, attachmentMetaMap, ticketIndex, loaded,
                   res, bodies, Merged, timed>>
    /\ UNCHANGED <<searchVars, ingestVars>>

\* the router hands a request to ticketHandler, attachHandler or searchHandler
AcceptFor(c) ==
    /\ conns[c].pc = "idle"
    /\ \/ \E id \in TicketIds \cup {"9"} :
             conns' = [conns EXCEPT ![c] = [NoConn EXCEPT !.op = "GetTicket", !.id = id,
                                                         !.tid = id, !.pc = "parse"]]
       \/ \E id \in AttIds \cup {"999"} :
             conns' = [conns EXCEPT ![c] = [NoConn EXCEPT !.op = "GetAttachment",
                                                         !.id = id, !.pc = "meta"]]
       \/ conns' = [conns EXCEPT ![c] = [NoConn EXCEPT !.op = "search", !.pc = "search"]]
    /\ UNCHANGED rtGitHubMap

\* GetAttachment: attMeta, ok := d.attachmentMetaMap[id]
MetaFor(c) ==
    /\ conns[c].pc = "meta"
    /\ IF conns[c].id \notin DOMAIN attachmentMetaMap
       THEN conns' = [conns EXCEPT ![c].pc = "respond", ![c].out = "can't find metadata"]
       ELSE conns' = [conns EXCEPT ![c].pc = "parse",
                                   ![c].meta = attachmentMetaMap[conns[c].id],
                                   ![c].tid = attachmentMetaMap[conns[c].id].TicketID]
    /\ UNCHANGED rtGitHubMap

\* GetTicket: t, err := d.ts.GetTicket(id)
ParseFor(c) ==
    /\ conns[c].pc = "parse"
    /\ LET r == readerGetTicket(backend, files, indexJSON, <<conns[c].tid>>)
       IN  IF r.err # "nil"
           THEN conns' = [conns EXCEPT ![c].pc = "respond", ![c].out = r.err]
           ELSE conns' = [conns EXCEPT ![c].pc = "lookup", ![c].t = r.t]
    /\ UNCHANGED rtGitHubMap

\* GetTicket: g, _ := d.rtGitHubMap[id]
LookupFor(c) ==
    /\ conns[c].pc = "lookup"
    /\ conns' = [conns EXCEPT
                   ![c].pc = "set",
                   ![c].g = IF conns[c].tid \in DOMAIN rtGitHubMap
                            THEN rtGitHubMap[conns[c].tid] ELSE ""]
    /\ rtGitHubMap' = MapAfterLookup(rtGitHubMap, conns[c].tid)

\* GetTicket: v.SetMapIndex(reflect.ValueOf("GitHubIssue"), reflect.ValueOf(g))
SetFor(c) ==
    /\ conns[c].pc = "set"
    /\ IF conns[c].t.kind # "object"
       THEN conns' = [conns EXCEPT ![c].pc = "respond", ![c].out = "panic"]
       ELSE conns' = [conns EXCEPT
                       ![c].pc = IF conns[c].op = "GetTicket" THEN "respond" ELSE "locate",
                       ![c].out = IF conns[c].op = "GetTicket" THEN "ok" ELSE "",
                       ![c].t = [kind |-> "object", Id |-> conns[c].t.Id,
                                 Transactions |-> conns[c].t.Transactions,
                                 GitHubIssue |-> conns[c].g]]
    /\ UNCHANGED rtGitHubMap

\* GetAttachment: the attachment at the offsets, and its content
LocateFor(c) ==
    /\ conns[c].pc = "locate"
    /\ LET ts == conns[c].t.Transactions
           toff == conns[c].meta.TransactionOffset
           aoff == conns[c].meta.AttachmentOffset
       IN  IF toff >= Len(ts) \/ aoff >= Len(ts[toff + 1].Attachments)
           THEN conns' = [conns EXCEPT ![c].pc = "respond", ![c].out = "panic"]
           ELSE LET content == attachmentContent(bodies[ts[toff + 1].Attachments[aoff + 1]])
                IN  conns' = [conns EXCEPT
                                ![c].pc = "respond",
                                ![c].out = IF content.outcome = "ok" THEN "ok"
                                           ELSE content.outcome]
    /\ UNCHANGED rtGitHubMap

\* searchHandler: s.Tix.Index.SearchInContext(r.Context(), sr) reads the index
SearchFor(c) ==
    /\ conns[c].pc = "search"
    /\ conns' = [conns EXCEPT ![c].pc = "respond", ![c].out = "ok"]
    /\ UNCHANGED rtGitHubMap

\* the handler writes its response and returns
RespondFor(c) ==
    /\ conns[c].pc = "respond"
    /\ conns' = [conns EXCEPT ![c] = NoConn]
    /\ UNCHANGED rtGitHubMap

Accept == (\E c \in Conns : AcceptFor(c)) /\ ServeFrame

AttachmentMeta == (\E c \in Conns : MetaFor(c)) /\ ServeFrame

ParseTicket == (\E c \in Conns : ParseFor(c)) /\ ServeFrame

LookupGitHub == (\E c \in Conns : LookupFor(c)) /\ ServeFrame

SetGitHubIssue == (\E c \in Conns : SetFor(c)) /\ ServeFrame

LocateAttachment == (\E c \in Conns : LocateFor(c)) /\ ServeFrame

SearchIndex == (\E c \in Conns : SearchFor(c)) /\ ServeFrame

Respond == (\E c \in Conns : RespondFor(c)) /\ ServeFrame

ServeNext ==
    \/ Accept \/ AttachmentMeta \/ ParseTicket \/ LookupGitHub \/ SetGitHubIssue
    \/ LocateAttachment \/ SearchIndex \/ Respond

ServeSpec == ServeInit /\ [][ServeNext]_vars

(***************************************************************************)
(* NewRouter: every route runs inside http.TimeoutHandler(r, 10s, ...).    *)
(* The handler runs in a goroutine of its own with a context that is done  *)
(* at the deadline or when the client goes away; ServeHTTP answers with    *)
(* the response of the handler when it returns first, and with 503 when    *)
(* the context is done first.  The handler goroutine is not stopped.       *)
(***************************************************************************)
NoTimed == [op |-> "", q |-> "", pc |-> "idle", ctx |-> "none", search |-> "none",
            sctx |-> "none", response |-> ""]

\* a search handed context.Background()
BackgroundContext(ctx) == "background"

\* s.Tix.Index.SearchInContext(r.Context(), sr): the context of the request
SearchContext(ctx) == ctx

TimeoutInit ==
    /\ SearchIdle
    /\ DataUnused
    /\ IngestUnused
    /\ rtGitHubMap = <<>> /\ Merged = <<>> /\ conns = <<>>
    /\ timed = [c \in Conns |-> NoTimed]

TimedFrame == UNCHANGED <<searchVars, dataVars, ingestVars, rtGitHubMap, Merged, conns>>

\* timeoutHandler.ServeHTTP: context.WithTimeout(r.Context(), h.dt), go h.handler.ServeHTTP
ArriveFor(c) ==
    /\ timed[c].pc = "idle"
    /\ \E op \in {"search", "ticket", "attachment"} :
          \E q \in IF op = "search" THEN {"", "status:open"} ELSE {""} :
             timed' = [timed EXCEPT ![c] = [NoTimed EXCEPT !.op = op, !.q = q,
                                                         !.pc = "running", !.ctx = "request"]]
    /\ TimedFrame

\* searchHandler: if q != "" the index is searched under r.Context()
CallSearchFor(c) ==
    /\ timed[c].pc = "running"
    /\ timed[c].op = "search"
    /\ RunsSearch(timed[c].q)
    /\ timed' = [timed EXCEPT ![c].pc = "searching", ![c].search = "inflight",
                               ![c].sctx = SearchContext("request")]
    /\ TimedFrame

\* the search returns its results
SearchReturnsFor(c) ==
    /\ timed[c].pc = "searching"
    /\ timed' = [timed EXCEPT ![c].pc = "rendering", ![c].search = "done"]
    /\ TimedFrame

\* the search sees that its context is done and returns the error
SearchAbandonedFor(c) ==
    /\ timed[c].pc = "searching"
    /\ timed[c].sctx = "request"
    /\ timed[c].ctx \in {"deadline", "cancelled"}
    /\ timed' = [timed EXCEPT ![c].pc = "rendering", ![c].search = "abandoned"]
    /\ TimedFrame

\* the handler returns: its response is sent unless 503 was sent before
HandlerReturnsFor(c) ==
    /\ \/ timed[c].pc = "rendering"
       \/ timed[c].pc = "running" /\ ~(timed[c].op = "search" /\ RunsSearch(timed[c].q))
    /\ timed' = [timed EXCEPT ![c].pc = "returned",
                               ![c].response = IF @ = "" THEN "handler" ELSE @]
    /\ TimedFrame

\* case <-ctx.Done() with context.DeadlineExceeded: 503 and the error body
TimeoutFor(c) ==
    /\ timed[c].pc \in {"running", "searching", "rendering"}
    /\ timed[c].ctx = "request"
    /\ timed' = [timed EXCEPT ![c].ctx = "deadline", ![c].response = "timeout"]
    /\ TimedFrame

\* case <-ctx.Done() when the client went away: 503 without a body
CancelFor(c) ==
    /\ timed[c].pc \in {"running", "searching", "rendering"}
    /\ timed[c].ctx = "request"
    /\ timed' = [timed EXCEPT ![c].ctx = "cancelled", ![c].response = "cancelled"]
    /\ TimedFrame

\* the goroutine of the handler is gone
CloseFor(c) ==
    /\ timed[c].pc = "returned"
    /\ timed' = [timed EXCEPT ![c] = NoTimed]
    /\ TimedFrame

Arrive == \E c \in Conns : ArriveFor(c)

CallSearch == \E c \in Conns : CallSearchFor(c)

SearchReturns == \E c \in Conns : SearchReturnsFor(c)

SearchAbandoned == \E c \in Conns : SearchAbandonedFor(c)

HandlerReturns == \E c \in Conns : HandlerReturnsFor(c)

Timeout == \E c \in Conns : TimeoutFor(c)

Cancel == \E c \in Conns : CancelFor(c)

Close == \E c \in Conns : CloseFor(c)

TimeoutNext ==
    \/ Arrive \/ CallSearch \/ SearchReturns \/ SearchAbandoned \/ HandlerReturns
    \/ Timeout \/ Cancel \/ Close

TimeoutSpec == TimeoutInit /\ [][TimeoutNext]_vars

\* time passes: the timer of a request whose handler has not returned
\* fires, and a search whose context is done notices it.  Nothing makes a
\* search or a handler return by itself.
TimeoutFairness ==
    \A c \in Conns : WF_vars(TimeoutFor(c)) /\ WF_vars(SearchAbandonedFor(c))

TimeoutFairSpec == TimeoutInit /\ [][TimeoutNext]_vars /\ TimeoutFairness

(***************************************************************************)
(* cmd/index: main, and readTickets with one goroutine per file.  A file   *)
(* name is the sequence of its bytes; the directory holds 1.json, 2.json,  *)
(* x1.json (a copy of ticket 1 kept under another name), index.json and    *)
(* rtgithub.csv, each present or absent.                                   *)
(***************************************************************************)
\* flag parallelread: number of ticket files read at once
ParallelRead == 2

\* ".json"
DotJSON == <<46, 106, 115, 111, 110>>

\* "1.json"
Name1 == <<49>> \o DotJSON

\* "2.json"
Name2 == <<50>> \o DotJSON

\* "x1.json"
NameX1 == <<120, 49>> \o DotJSON

\* "index.json"
NameIndex == <<105, 110, 100, 101, 120>> \o DotJSON

\* "rtgithub.csv"
NameCSV == <<114, 116, 103, 105, 116, 104, 117, 98, 46, 99, 115, 118>>

IngestNames == {Name1, Name2, NameX1, NameIndex, NameCSV}

\* what a file of the directory may hold
IngestContent(name) ==
    CASE name = Name1 ->
            {NoFile, [kind |-> "object", Id |-> "1", Transactions |-> <<>>],
             [kind |-> "bad", Id |-> "", Transactions |-> <<>>]}
      [] name = Name2 ->
            {NoFile, [kind |-> "object", Id |-> "2", Transactions |-> <<>>],
             [kind |-> "unreadable", Id |-> "", Transactions |-> <<>>],
             [kind |-> "null", Id |-> "", Transactions |-> <<>>]}
      [] name = NameX1 ->
            {NoFile,
             [kind |-> "object", Id |-> "1",
              Transactions |-> <<[Attachments |-> <<"101">>]>>],
             [kind |-> "bad", Id |-> "", Transactions |-> <<>>]}
      [] name = NameIndex ->
            {NoFile, [kind |-> "array", Id |-> "", Transactions |-> <<>>]}
      [] OTHER -> {[kind |-> "bad", Id |-> "", Transactions |-> <<>>]}

\* strings.HasSuffix
HasSuffix(s, suffix) ==
    Len(s) >= Len(suffix) /\ SubSeq(s, Len(s) - Len(suffix) + 1, Len(s)) = suffix

\* a < b, byte by byte
RECURSIVE NameLess(_, _)
NameLess(a, b) ==
    IF a = <<>> THEN b # <<>>
    ELSE IF b = <<>> THEN FALSE
    ELSE a[1] < b[1] \/ (a[1] = b[1] /\ NameLess(Tail(a), Tail(b)))

RECURSIVE SortNames(_)
SortNames(ns) ==
    IF ns = {} THEN <<>>
    ELSE LET m == CHOOSE x \in ns : \A y \in ns \ {x} : NameLess(x, y)
         IN  <<m>> \o SortNames(ns \ {m})

\* filepath.Glob(filepath.Join(root, "*.json")): the matches, sorted
Glob(dr) == SortNames({n \in DOMAIN dr : dr[n].kind # "absent" /\ HasSuffix(n, DotJSON)})

\* fileRe.MatchString(path) with fileRe `\d+\.json$`: the expression is not
\* anchored at the start of the name
FileReMatch(name) ==
    /\ Len(name) > Len(DotJSON)
    /\ HasSuffix(name, DotJSON)
    /\ IsDigit(name[Len(name) - Len(DotJSON)])

\* sem.Acquire(ctx, 1) returns at once
SemAlwaysFree(cur) == TRUE

\* sem.Acquire(ctx, 1) returns when the weight held is below parallelread
SemFree(cur) == cur < ParallelRead

\* a worker that keeps its slot
ReleaseNothing(cur) == cur

\* sem.Release(1)
Release(cur) == cur - 1

\* mu.Lock() returns at once
MutexAlwaysFree(holder) == TRUE

\* mu.Lock() returns when no goroutine holds mu
MutexFree(holder) == holder = 0

NoUnit == [pc |-> "idle", t |-> NoTicket, local |-> <<>>]

\* the orders sort.Slice may leave: sorted by strconv.Atoi(ID), tickets of
\* equal number in any order (sort.Slice is not stable)
SortedOrders(ts) ==
    { [i \in 1..Len(ts) |-> ts[perm[i]]] :
        perm \in { f \in [1..Len(ts) -> 1..Len(ts)] :
                     /\ \A i, j \in 1..Len(ts) : i # j => f[i] # f[j]
                     /\ \A i, j \in 1..Len(ts) :
                           i < j => Atoi(ts[f[i]].Id) <= Atoi(ts[f[j]].Id) } }

NoManifestWritten == [written |-> FALSE, tickets |-> <<>>]

\* flag batch: largest batch size of the model
MaxBatch == 2

\* the directory of the full-text index: exists, written by this run; the
\* loop of buildBleveIndex: index i of the range (from 1), the batch
\* being filled and the batches handed to index.Batch, each a sequence of
\* positions of tickets; failed when an index.Batch returned an error
NoBleve == [exists |-> FALSE, written |-> FALSE, batchSize |-> 1, i |-> 0,
            batch |-> <<>>, batches |-> <<>>, failed |-> FALSE]

IngestInit ==
    /\ SearchIdle
    /\ ServeUnused
    /\ DataUnused
    /\ dir \in [IngestNames -> UNION {IngestContent(n) : n \in IngestNames}]
    /\ \A n \in IngestNames : dir[n] \in IngestContent(n)
    /\ mpc = "glob"
    /\ globbed = <<>>
    /\ next = 1
    /\ units = <<>>
    /\ sem = 0
    /\ wg = 0
    /\ mu = 0
    /\ tickets = <<>>
    /\ manifest = NoManifestWritten
    /\ \E e \in BOOLEAN : bleve = [NoBleve EXCEPT !.exists = e, !.batchSize = MaxBatch]
    /\ run = 1
    /\ firstRun = NoManifestWritten

otherVars == <<searchVars, serveVars, dataVars>>

\* readTickets: files, err := filepath.Glob(...)
GlobFiles ==
    /\ mpc = "glob"
    /\ globbed' = Glob(dir)
    /\ units' = [i \in 1..Len(Glob(dir)) |-> NoUnit]
    /\ next' = 1
    /\ mpc' = "loop"
    /\ UNCHANGED <<dir, sem, wg, mu, tickets, manifest, bleve, run, firstRun, otherVars>>

\* the loop of readTickets: wg.Add(1); sem.Acquire(context.Background(), 1)
Acquire ==
    /\ mpc = "loop"
    /\ next <= Len(globbed)
    /\ SemFree(sem)
    /\ wg' = wg + 1
    /\ sem' = sem + 1
    /\ mpc' = "go"
    /\ UNCHANGED <<dir, globbed, next, units, mu, tickets, manifest, bleve, run, firstRun,
                   otherVars>>

\* go func(path string) {...}(path)
Launch ==
    /\ mpc = "go"
    /\ units' = [units EXCEPT ![next].pc = "match"]
    /\ next' = next + 1
    /\ mpc' = "loop"
    /\ UNCHANGED <<dir, globbed, sem, wg, mu, tickets, manifest, bleve, run, firstRun,
                   otherVars>>

\* a goroutine runs while main is in the loop or in wg.Wait
Running(i) == mpc \in {"loop", "go"} /\ i \in DOMAIN units

\* the match of the name and processFile; log.Fatalf ends the process
WorkerRead ==
    \E i \in DOMAIN units :
        /\ Running(i)
        /\ units[i].pc = "match"
        /\ IF ~FileReMatch(globbed[i])
           THEN units' = [units EXCEPT ![i].pc = "release"] /\ UNCHANGED mpc
           ELSE LET r == processFile(dir[globbed[i]])
                IN  IF r.err # "nil"
                    THEN units' = [units EXCEPT ![i].pc = "fatal"] /\ mpc' = "exited"
                    ELSE /\ units' = [units EXCEPT ![i].pc = "lock", ![i].t = r.t]
                         /\ UNCHANGED mpc
        /\ UNCHANGED <<dir, globbed, next, sem, wg, mu, tickets, manifest, bleve, run,
                       firstRun, otherVars>>

\* mu.Lock()
WorkerLock ==
    \E i \in DOMAIN units :
        /\ Running(i)
        /\ units[i].pc = "lock"
        /\ MutexFree(mu)
        /\ mu' = i
        /\ units' = [units EXCEPT ![i].pc = "load"]
        /\ UNCHANGED <<dir, mpc, globbed, next, sem, wg, tickets, manifest, bleve, run,
                       firstRun, otherVars>>

\* append(tickets, *t): the slice is read
WorkerLoad ==
    \E i \in DOMAIN units :
        /\ Running(i)
        /\ units[i].pc = "load"
        /\ units' = [units EXCEPT ![i].pc = "store", ![i].local = tickets]
        /\ UNCHANGED <<dir, mpc, globbed, next, sem, wg, mu, tickets, manifest, bleve, run,
                       firstRun, otherVars>>

\* tickets = append(tickets, *t): the grown slice is assigned
WorkerStore ==
    \E i \in DOMAIN units :
        /\ Running(i)
        /\ units[i].pc = "store"
        /\ tickets' = Append(units[i].local, units[i].t)
        /\ units' = [units EXCEPT ![i].pc = "unlock", ![i].local = <<>>]
        /\ UNCHANGED <<dir, mpc, globbed, next, sem, wg, mu, manifest, bleve, run, firstRun,
                       otherVars>>

\* mu.Unlock()
WorkerUnlock ==
    \E i \in DOMAIN units :
        /\ Running(i)
        /\ units[i].pc = "unlock"
        /\ mu' = 0
        /\ units' = [units EXCEPT ![i].pc = "release"]
        /\ UNCHANGED <<dir, mpc, globbed, next, sem, wg, tickets, manifest, bleve, run,
                       firstRun, otherVars>>

\* defer sem.Release(1)
WorkerRelease ==
    \E i \in DOMAIN units :
        /\ Running(i)
        /\ units[i].pc = "release"
        /\ sem' = Release(sem)
        /\ units' = [units EXCEPT ![i].pc = "done"]
        /\ UNCHANGED <<dir, mpc, globbed, next, wg, mu, tickets, manifest, bleve, run,
                       firstRun, otherVars>>

\* defer wg.Done()
WorkerDone ==
    \E i \in DOMAIN units :
        /\ Running(i)
        /\ units[i].pc = "done"
        /\ wg' = wg - 1
        /\ units' = [units EXCEPT ![i].pc = "finished"]
        /\ UNCHANGED <<dir, mpc, globbed, next, sem, mu, tickets, manifest, bleve, run,
                       firstRun, otherVars>>

\* wg.Wait() returns
Wait ==
    /\ mpc = "loop"
    /\ next > Len(globbed)
    /\ wg = 0
    /\ mpc' = "sort"
    /\ UNCHANGED <<dir, globbed, next, units, sem, wg, mu, tickets, manifest, bleve, run,
                   firstRun, otherVars>>

\* sort.Slice(tickets, ...)
Sort ==
    /\ mpc = "sort"
    /\ tickets' \in SortedOrders(tickets)
    /\ mpc' = "write"
    /\ UNCHANGED <<dir, globbed, next, units, sem, wg, mu, manifest, bleve, run, firstRun,
                   otherVars>>

\* main: writeIndexJSON(tickets, outIndex)
writeIndexJSON ==
    /\ mpc = "write"
    /\ manifest' = [written |-> TRUE, tickets |-> tickets]
    /\ dir' = [dir EXCEPT ![NameIndex] = [kind |-> "array", Id |-> "", Transactions |-> <<>>]]
    /\ mpc' = "bleve"
    /\ UNCHANGED <<globbed, next, units, sem, wg, mu, tickets, bleve, run, firstRun,
                   otherVars>>

\* main: buildBleveIndex(tickets, outBleve); bleve.New fails when the
\* directory exists, and main ends with log.Fatal
buildBleveIndex ==
    /\ mpc = "bleve"
    /\ IF bleve.exists
       THEN mpc' = "exited" /\ UNCHANGED bleve
       ELSE /\ mpc' = "index"
            /\ bleve' = [bleve EXCEPT !.exists = TRUE, !.i = 1, !.batch = <<>>,
                                      !.batches = <<>>, !.failed = FALSE]
    /\ UNCHANGED <<dir, globbed, next, units, sem, wg, mu, tickets, manifest, run, firstRun,
                   otherVars>>

\* buildBleveIndex: one round of for i, tick := range tickets.  The value
\* index.Batch returns is dropped.
IndexTicket ==
    /\ mpc = "index"
    /\ bleve.i <= Len(tickets)
    /\ IF ~AtoiOk(tickets[bleve.i].Id)
       THEN bleve' = [bleve EXCEPT !.i = @ + 1]
       ELSE LET batch == Append(bleve.batch, bleve.i)
            IN  IF (bleve.i - 1) % bleve.batchSize = 0
                THEN \E ok \in BOOLEAN :
                        bleve' = [bleve EXCEPT !.i = @ + 1, !.batch = <<>>,
                                              !.batches = Append(@, batch),
                                              !.failed = @ \/ ~ok]
                ELSE bleve' = [bleve EXCEPT !.i = @ + 1, !.batch = batch]
    /\ UNCHANGED <<dir, mpc, globbed, next, units, sem, wg, mu, tickets, manifest, run,
                   firstRun, otherVars>>

\* buildBleveIndex: index.Batch(batch) after the loop, index.Close, return nil
FinalBatch ==
    /\ mpc = "index"
    /\ bleve.i > Len(tickets)
    /\ \E ok \in BOOLEAN :
          bleve' = [bleve EXCEPT !.batch = <<>>, !.batches = Append(@, bleve.batch),
                                !.failed = @ \/ ~ok, !.written = TRUE]
    /\ mpc' = "done"
    /\ UNCHANGED <<dir, globbed, next, units, sem, wg, mu, tickets, manifest, run, firstRun,
                   otherVars>>

\* cmd/index is run a second time on the same directory
RunAgain ==
    /\ mpc \in {"done", "exited"}
    /\ run = 1
    /\ run' = 2
    /\ firstRun' = manifest
    /\ manifest' = [manifest EXCEPT !.written = FALSE]
    /\ bleve' = [bleve EXCEPT !.written = FALSE]
    /\ mpc' = "glob"
    /\ globbed' = <<>>
    /\ next' = 1
    /\ units' = <<>>
    /\ sem' = 0
    /\ wg' = 0
    /\ mu' = 0
    /\ tickets' = <<>>
    /\ UNCHANGED <<dir, otherVars>>

IngestNext ==
    \/ GlobFiles \/ Acquire \/ Launch \/ WorkerRead \/ WorkerLock \/ WorkerLoad
    \/ WorkerStore \/ WorkerUnlock \/ WorkerRelease \/ WorkerDone \/ Wait \/ Sort
    \/ writeIndexJSON \/ buildBleveIndex \/ IndexTicket \/ FinalBatch \/ RunAgain

IngestSpec == IngestInit /\ [][IngestNext]_vars

\* the Go scheduler runs every goroutine that can run: main in its loop and
\* in wg.Wait, and each worker; a file read returns
ReadFairness ==
    /\ WF_vars(GlobFiles) /\ WF_vars(Acquire) /\ WF_vars(Launch) /\ WF_vars(Wait)
    /\ WF_vars(WorkerRead) /\ WF_vars(WorkerLock) /\ WF_vars(WorkerLoad)
    /\ WF_vars(WorkerStore) /\ WF_vars(WorkerUnlock) /\ WF_vars(WorkerRelease)
    /\ WF_vars(WorkerDone)

IngestFairSpec == IngestInit /\ [][IngestNext]_vars /\ ReadFairness

(***************************************************************************)
(* buildBleveIndex on the sorted ticket sequences over a few ids, with     *)
(* each batch size.  The ticket files these tickets were read from are not *)
(* named: the directory shows only the manifest just written.              *)
(***************************************************************************)
\* longest ticket sequence
MaxTickets == 5

\* ticket ids: numbers, the id of a file holding null, and an id Atoi rejects
BatchIds == {"-1", "0", "", "1", "2", "x"}

\* the sequences readTickets may return: sorted by strconv.Atoi(ID), an id
\* that does not parse counting as 0
SortedTickets ==
    { ts \in UNION {[1..n -> BatchIds] : n \in 0..MaxTickets} :
        \A i, j \in DOMAIN ts : i < j => Atoi(ts[i]) <= Atoi(ts[j]) }

BatchInit ==
    /\ SearchIdle
    /\ ServeUnused
    /\ DataUnused
    /\ \E ids \in SortedTickets :
          tickets = [k \in DOMAIN ids |-> [Id |-> ids[k], Transactions |-> <<>>]]
    /\ dir = [n \in IngestNames |->
                 IF n = NameIndex THEN [kind |-> "array", Id |-> "", Transactions |-> <<>>]
                 ELSE NoFile]
    /\ mpc = "bleve"
    /\ globbed = <<>>
    /\ next = 1
    /\ units = <<>>
    /\ sem = 0
    /\ wg = 0
    /\ mu = 0
    /\ manifest = [written |-> TRUE, tickets |-> tickets]
    /\ \E e \in BOOLEAN, b \in 1..MaxBatch :
          bleve = [NoBleve EXCEPT !.exists = e, !.batchSize = b]
    /\ run = 1
    /\ firstRun = NoManifestWritten

BatchNext == buildBleveIndex \/ IndexTicket \/ FinalBatch

BatchSpec == BatchInit /\ [][BatchNext]_vars

(***************************************************************************)
(* What a form value denotes, stated on its characters and independently   *)
(* of ParseUint: used by the properties of the search handler.             *)
(***************************************************************************)
AllDigits(s) == \A i \in 1..Len(s) : s[i] \in 48..57

RECURSIVE StripZeros(_)
StripZeros(s) == IF s # <<>> /\ s[1] = 48 THEN StripZeros(Tail(s)) ELSE s

\* the number a string of at most 9 digits denotes
RECURSIVE SmallValue(_)
SmallValue(s) ==
    IF s = <<>> THEN 0
    ELSE 10 * SmallValue(SubSeq(s, 1, Len(s) - 1)) + (s[Len(s)] - 48)

RECURSIVE LexLe(_, _)
LexLe(s, t) ==
    \/ s = <<>>
    \/ s[1] < t[1]
    \/ s[1] = t[1] /\ LexLe(Tail(s), Tail(t))

\* 2^64 - 1 in decimal
MaxUint64Digits == Dec(<<1, 8, 4, 4, 6, 7, 4, 4, 0, 7, 3, 7, 0, 9, 5, 5, 1, 6, 1, 5>>)

\* s is the decimal notation of an unsigned integer that fits 64 bits
IsUint64(s) ==
    /\ s # <<>>
    /\ AllDigits(s)
    /\ LET t == StripZeros(s)
       IN  \/ Len(t) < Len(MaxUint64Digits)
           \/ Len(t) = Len(MaxUint64Digits) /\ LexLe(t, MaxUint64Digits)

\* the decimal notation of a natural number
RECURSIVE DecimalOf(_)
DecimalOf(n) == IF n < 10 THEN <<n + 48>> ELSE Append(DecimalOf(n \div 10), (n % 10) + 48)

\* the page size the documentation promises for the form value s
PromisedPageSize(s) ==
    IF IsUint64(s) /\ Len(StripZeros(s)) <= 3
          /\ SmallValue(StripZeros(s)) \in 1..MaxPageSize
    THEN SmallValue(StripZeros(s))
    ELSE DefaultPageSize

Searched == pc = "rendered" /\ sr # NoSearch

\* a + b < c over the naturals, for uint64 values a, b, c
SumLt(a, b, c) == U64Ge(U64Add(a, b), a) /\ U64Lt(U64Add(a, b), c)

(***************************************************************************)
(* C1: for a search with total T, page size P > 0 and start S, 0 <= S < T, *)
(* the result has a Next link iff S + P < T and a Previous link iff        *)
(* S - P >= 0; when S >= P the Previous link carries the offset S - P.     *)
(* The handler drops the Previous link when S - P >= 999999999.            *)
(***************************************************************************)
C1_PaginationLinks ==
    (Searched /\ U64Lt(sr.from, d.Total)) =>
        /\ (d.Next # NoLink) <=> SumLt(sr.from, sr.size, d.Total)
        /\ (d.Prev # NoLink) <=> U64Ge(sr.from, sr.size)
        /\ U64Ge(sr.from, sr.size) =>
              d.Prev.start = FormatUint(U64Sub(sr.from, sr.size))

(***************************************************************************)
(* C2: a query of exactly "*" is rewritten before it reaches the search    *)
(* engine: the engine is never handed the bare "*".  The handler rewrites  *)
(* only the displayed query.                                               *)
(***************************************************************************)
C2_StarRewritten == (Searched /\ req.q = "*") => sr.query # "*"

(***************************************************************************)
(* C9: the effective page size, in the search request and in the links,    *)
(* is in 1..100: a requested size in 1..100 is used unchanged, and zero,   *)
(* an absent or unparsable size and a size above 100 become 25.            *)
(***************************************************************************)
C9_PageSizeClamped ==
    Searched =>
        /\ sr.size = U64FromNat(PromisedPageSize(req.num))
        /\ PromisedPageSize(req.num) \in 1..MaxPageSize
        /\ d.Next # NoLink => d.Next.num = DecimalOf(PromisedPageSize(req.num))
        /\ d.Prev # NoLink => d.Prev.num = DecimalOf(PromisedPageSize(req.num))
        /\ d.Error = "" => d.PageSize = sr.size

\* a size of 101 was requested and the search ran with 25, links included
C9_Witness ==
    /\ Searched
    /\ req.num = Dec(<<1, 0, 1>>)
    /\ sr.size = U64FromNat(DefaultPageSize)
    /\ d.Next # NoLink /\ d.Next.num = Dec(<<2, 5>>)
    /\ d.Prev # NoLink

(***************************************************************************)
(* C10: when the start parameter does not parse as an unsigned 64-bit      *)
(* decimal integer, the search and the links use the start offset 0.       *)
(* ParseUint returns 2^64 - 1, not 0, for a number that is out of range.   *)
(***************************************************************************)
C10_BadStartIsZero ==
    (Searched /\ ~IsUint64(req.start)) =>
        /\ sr.from = U64Zero
        /\ d.Prev = NoLink
        /\ d.Next # NoLink => d.Next.start = FormatUint(sr.size)

(***************************************************************************)
(* C11: the sort direction depends on the order parameter alone: "0" sorts *)
(* by id ascending, "1" and every other value, the absent parameter        *)
(* included, sort by id descending; the Next and Previous links carry the  *)
(* normalized value ("0" or "1"), so that a request made of a link sorts   *)
(* as the request that produced the link.                                  *)
(***************************************************************************)
C11_OrderNormalized ==
    Searched =>
        LET promised == IF req.order = "0" THEN "0" ELSE "1"
        IN  /\ sr.sortBy = (IF promised = "0" THEN "id" ELSE "-id")
            /\ d.Next # NoLink =>
                  (d.Next.order = promised /\ SortBy(NormalizeOrder(d.Next.order)) = sr.sortBy)
            /\ d.Prev # NoLink =>
                  (d.Prev.order = promised /\ SortBy(NormalizeOrder(d.Prev.order)) = sr.sortBy)

\* an unrecognized order "2" was sent: the search sorts descending and both
\* links carry "1"
C11_Witness ==
    /\ Searched
    /\ req.order = "2"
    /\ sr.sortBy = "-id"
    /\ d.Next # NoLink /\ d.Next.order = "1"
    /\ d.Prev # NoLink /\ d.Prev.order = "1"

(***************************************************************************)
(* C12: a request with an empty query never reaches the search engine and  *)
(* renders an empty result without an error: no tickets, total 0, no Next  *)
(* and no Previous link.                                                   *)
(***************************************************************************)
C12_EmptyQuery ==
    (pc = "rendered" /\ req.q = "") =>
        /\ sr = NoSearch
        /\ d.Error = ""
        /\ d.Tickets = <<>>
        /\ d.Total = U64Zero
        /\ d.Next = NoLink
        /\ d.Prev = NoLink

\* an empty query with page parameters was rendered
C12_Witness ==
    /\ pc = "rendered"
    /\ req.q = ""
    /\ req.start = Dec(<<1, 0>>)
    /\ req.num = Dec(<<1, 0>>)
    /\ sr = NoSearch
    /\ d.Tickets = <<>>

(***************************************************************************)
(* C25: for a search that returns at least one hit, with start S, page     *)
(* size P and total T, the page shows Start = S + 1 and                    *)
(* End = min(S + P, T): 1 <= Start <= End <= T and End - Start + 1 <= P.   *)
(* A search at start 0 shows Start = 1, at most P hits, and a Next link    *)
(* only if T > P.                                                          *)
(***************************************************************************)
C25_DisplayedRange ==
    (Searched /\ d.Tickets # <<>>) =>
        /\ U64Gt(d.Start, sr.from) /\ U64Sub(d.Start, sr.from) = U64FromNat(1)
        /\ d.End = (IF SumLt(sr.from, sr.size, d.Total)
                    THEN U64Add(sr.from, sr.size) ELSE d.Total)
        /\ U64Ge(d.Start, U64FromNat(1))
        /\ U64Ge(d.End, d.Start)
        /\ U64Ge(d.Total, d.End)
        /\ U64Ge(sr.size, U64Sub(d.End, sr.from))
        /\ sr.from = U64Zero =>
              /\ d.Start = U64FromNat(1)
              /\ U64Ge(sr.size, U64FromNat(Len(d.Tickets)))
              /\ d.Next # NoLink => U64Gt(d.Total, sr.size)

\* the last page of 11 results: start 10, size 25, shown as 11 - 11 of 11
C25_Witness ==
    /\ Searched
    /\ d.Tickets # <<>>
    /\ req.start = Dec(<<1, 0>>)
    /\ sr.size = U64FromNat(DefaultPageSize)
    /\ d.Total = U64FromNat(11)
    /\ d.Start = U64FromNat(11)
    /\ d.End = U64FromNat(11)

\* the page size of the walk, as a number
WalkSize == CHOOSE p \in 1..MaxPageSize : U64FromNat(p) = sr.size

\* pages a walk from walk.base takes: ceil((T - base) / P)
WalkLength == (walk.total - walk.base + WalkSize - 1) \div WalkSize

\* the pages seen so far, the one shown included
WalkPages == Append(walk.pages, [S |-> sr.from, E |-> d.End])

(***************************************************************************)
(* C26: following the Next links from the first page of a result set with  *)
(* total T > 0 and page size P visits the offsets 0, P, 2P, ... in order,  *)
(* reaches a page without a Next link after exactly ceil(T / P) pages, and *)
(* the ranges [S, min(S + P, T)) of the pages cover 0 .. T - 1 exactly     *)
(* once; following Next and then Previous returns to the same start, page  *)
(* size and order.  A page whose predecessor starts at 999999999 or above  *)
(* has no Previous link (C1).                                              *)
(***************************************************************************)
C26_PagingWalk ==
    (walk.on /\ pc = "rendered") =>
        /\ walk.via \in {"start", "next"} =>
              /\ Len(WalkPages) <= WalkLength
              /\ \A k \in DOMAIN WalkPages :
                    /\ WalkPages[k].S = U64FromNat(walk.base + (k - 1) * WalkSize)
                    /\ U64Gt(WalkPages[k].E, WalkPages[k].S)
                    /\ k > 1 => WalkPages[k].S = WalkPages[k - 1].E
              /\ (d.Next = NoLink) <=> (Len(WalkPages) = WalkLength)
              /\ d.Next = NoLink => d.End = U64FromNat(walk.total)
        /\ walk.via = "next" =>
              /\ sr.size = walk.origin.size
              /\ sr.sortBy = walk.origin.sortBy
              /\ d.Prev # NoLink
        /\ walk.via = "prev" => sr = walk.origin

\* the same walk below PrevLimit
C26_WalkBelowPrevLimit == walk.base = 0 => C26_PagingWalk

\* a walk of three pages ended, and a step back from the second page
C26_Witness ==
    /\ walk.on /\ pc = "rendered"
    /\ walk.base = 0
    /\ \/ walk.via = "next" /\ Len(walk.pages) = 2 /\ d.Next = NoLink
       \/ walk.via = "prev" /\ Len(walk.pages) = 1 /\ sr.from = U64Zero

(***************************************************************************)
(* Properties of the ticket repository                                     *)
(***************************************************************************)
\* the (ticket, transaction position, attachment position) triples at which
\* the manifest entries name attachment id a
ManifestPositions(entries, a) ==
    { [TicketID |-> entries[e].Id, TransactionOffset |-> i - 1, AttachmentOffset |-> j - 1] :
        <<e, i, j>> \in
          { <<e, i, j>> \in (1..Len(entries)) \X (1..MaxItems) \X (1..MaxItems) :
              /\ i <= Len(entries[e].Transactions)
              /\ j <= Len(entries[e].Transactions[i].Attachments)
              /\ entries[e].Transactions[i].Attachments[j] = a } }

\* some attachment id is named at two different triples
HasCollision(entries) ==
    \E a \in AttIds : Cardinality(ManifestPositions(entries, a)) > 1

\* the manifest on disk is the one the index builder makes of the files on
\* disk, and it is the manifest the server loaded
FreshlyLoaded ==
    /\ loaded = "ok"
    /\ ~readTickets(files).fatal
    /\ indexJSON = [kind |-> "array", entries |-> readTickets(files).tickets]
    /\ ticketIndex = indexJSON.entries

\* the position meta names does not exist in document doc
OutOfRange(meta, doc) ==
    \/ meta.TransactionOffset >= Len(doc.Transactions)
    \/ meta.AttachmentOffset >=
          Len(doc.Transactions[meta.TransactionOffset + 1].Attachments)

(***************************************************************************)
(* C3: GetAttachment never returns a NotFound error for an id that is a    *)
(* key of the offset index, and always returns a NotFound error (the kind  *)
(* storage reports for an absent file) for an id that is not.  For an      *)
(* unknown id the code returns a plain fmt.Errorf error.                   *)
(***************************************************************************)
C3_AttachmentNotFound ==
    res.op = "GetAttachment" =>
        IF res.aid \in DOMAIN attachmentMetaMap
        THEN ~(res.outcome = "error" /\ ErrIsNotExist(res.err))
        ELSE res.outcome = "error" /\ ErrIsNotExist(res.err)

(***************************************************************************)
(* C4: after ingestion and loading of the resulting manifest, the offset   *)
(* index maps the attachment id at Transactions[i].Attachments[j] of the   *)
(* document GetTicket(id) returns to exactly (id, i, j), for every ticket  *)
(* and every (i, j).  An id that occurs twice keeps only its last place.   *)
(***************************************************************************)
C4_ManifestMatchesDocuments ==
    FreshlyLoaded =>
        \A id \in TicketIds :
            LET r == DataGetTicket(backend, files, indexJSON, <<id>>)
            IN  r.outcome = "ok" =>
                  \A i \in 1..Len(r.doc.Transactions) :
                    \A j \in 1..Len(r.doc.Transactions[i].Attachments) :
                      LET a == r.doc.Transactions[i].Attachments[j]
                      IN  /\ a \in DOMAIN attachmentMetaMap
                          /\ attachmentMetaMap[a] =
                                [TicketID |-> id, TransactionOffset |-> i - 1,
                                 AttachmentOffset |-> j - 1]

(***************************************************************************)
(* C5: building the offset index fails when the manifest names an          *)
(* attachment id at two different (ticket, transaction, attachment)        *)
(* triples: no manifest with a collision is ever loaded.                   *)
(***************************************************************************)
C5_CollisionRejected == loaded = "ok" => ~HasCollision(ticketIndex)

(***************************************************************************)
(* C6: when the offset index names a position that is out of range for the *)
(* ticket document fetched, GetAttachment returns an error value: it       *)
(* neither returns content nor panics.                                     *)
(***************************************************************************)
C6_DivergenceIsError ==
    ( /\ res.op = "GetAttachment"
      /\ res.aid \in DOMAIN attachmentMetaMap
      /\ res.doc # NoDoc
      /\ OutOfRange(attachmentMetaMap[res.aid], res.doc) )
    => (res.outcome = "error" /\ res.status = 500)

(***************************************************************************)
(* C7: both backends report an absent name the same way: GetFile/GetJSON   *)
(* and GetTicket return an error of the NotFound kind (os.ErrNotExist)     *)
(* and do not panic.  The directory backend reports a name below a         *)
(* regular file ("1.json/x") as ENOTDIR, which is not of that kind.        *)
(***************************************************************************)
C7_BackendsAgree ==
    (res.op = "GetTicket" /\ res.stored = NoFile) =>
        /\ res.outcome = "error"
        /\ ErrIsNotExist(res.err)
        /\ ErrIsNotExist(GetJSON(backend, files, indexJSON, res.tid))
        /\ ErrIsNotExist(GetFile(backend, files, indexJSON, JSONName(res.tid)))

(***************************************************************************)
(* C8: Data.GetTicket returns a NotFound error when the document is absent *)
(* and a parse error when the stored bytes are no ticket document (no      *)
(* JSON, or JSON that is not an object); it does not panic; the web layer  *)
(* answers 404 for NotFound and 500 for every other error.  Stated for the *)
(* plain ids ("1", "9"), where both backends report absence alike.         *)
(***************************************************************************)
C8_GetTicketErrors ==
    (res.op = "GetTicket" /\ Len(res.tid) = 1) =>
        /\ res.outcome # "panic"
        /\ res.stored = NoFile =>
              (res.outcome = "error" /\ ErrIsNotExist(res.err) /\ res.status = 404)
        /\ res.stored \in Damaged =>
              (res.outcome = "error" /\ ~ErrIsNotExist(res.err) /\ res.status = 500)
        /\ res.stored.kind = "object" => (res.outcome = "ok" /\ res.status = 200)

(***************************************************************************)
(* Base64 as RFC 4648 defines it, line breaks ignored: the text is a       *)
(* multiple of four characters, all of the alphabet but for one or two     *)
(* final '=', and the bytes are the successive 8-bit groups of the         *)
(* concatenated 6-bit values.                                              *)
(***************************************************************************)
\* A-Z a-z 0-9 + /
Base64Chars ==
    [i \in 1..64 |-> IF i <= 26 THEN 64 + i
                     ELSE IF i <= 52 THEN 70 + i
                     ELSE IF i <= 62 THEN i - 5
                     ELSE IF i = 63 THEN 43 ELSE 47]

Sextet(c) == (CHOOSE i \in 1..64 : Base64Chars[i] = c) - 1

StripLineBreaks(s) == SelectSeq(s, LAMBDA c : c \notin {10, 13})

PadCount(t) ==
    IF Len(t) >= 2 /\ t[Len(t)] = 61 /\ t[Len(t) - 1] = 61 THEN 2
    ELSE IF Len(t) >= 1 /\ t[Len(t)] = 61 THEN 1
    ELSE 0

IsBase64(s) ==
    LET t == StripLineBreaks(s)
    IN  /\ Len(t) % 4 = 0
        /\ \A i \in 1..(Len(t) - PadCount(t)) : \E k \in 1..64 : Base64Chars[k] = t[i]

Base64Bytes(s) ==
    LET t == StripLineBreaks(s)
        m == Len(t) - PadCount(t)
    IN  [i \in 1..((6 * m) \div 8) |->
            LET bit == 8 * (i - 1)
                a == (bit \div 6) + 1
                w == Sextet(t[a]) * 64 + Sextet(t[a + 1])
            IN  (w \div 2^(4 - (bit % 6))) % 256]

\* GetAttachment located the attachment object of the requested id
Located == res.op = "GetAttachment" /\ res.att # ""

(***************************************************************************)
(* C13: GetAttachment decodes by content type: for a stored content type   *)
(* that begins with "text/" the returned bytes are the bytes of the stored *)
(* string; otherwise they are the base64 decoding of the stored string,    *)
(* and when that decoding fails GetAttachment returns an error and no      *)
(* content.  The attachment objects are those with a stored content type   *)
(* and a stored content; the call panics when Filename is null.            *)
(***************************************************************************)
C13_ContentDecoded ==
    ( /\ Located
      /\ bodies[res.att].ContentType.str
      /\ bodies[res.att].OriginalContent.str )
    => LET stored == bodies[res.att].OriginalContent.s
       IN  IF HasPrefix(bodies[res.att].ContentType.s, TextPrefix)
           THEN res.outcome = "ok" /\ res.content = stored
           ELSE IF IsBase64(stored)
           THEN res.outcome = "ok" /\ res.content = Base64Bytes(stored)
           ELSE res.outcome = "error" /\ res.content = <<>>

(***************************************************************************)
(* Properties of bulk ingestion                                            *)
(***************************************************************************)
\* the name is a numeric ticket id followed by ".json"
NumericIdName(name) ==
    /\ Len(name) > 5
    /\ SubSeq(name, Len(name) - 4, Len(name)) = <<46, 106, 115, 111, 110>>
    /\ \A i \in 1..(Len(name) - 5) : name[i] \in 48..57

PresentNames == {n \in IngestNames : dir[n].kind # "absent"}

\* the file cannot be read, or its bytes are no JSON object and not null
Unparsable(c) == c.kind \in {"bad", "array", "unreadable"}

\* the ticket a file that parses yields
Parsed(c) ==
    IF c.kind = "object" THEN [Id |-> c.Id, Transactions |-> c.Transactions] ELSE NoTicket

\* readTickets is past wg.Wait in this run
PastWait == mpc \in {"sort", "write", "bleve", "index", "done"}

\* the files the goroutines pass on to processFile
Ingested == {i \in DOMAIN units : FileReMatch(globbed[i])}

\* units that were launched and have not yet released their slot
InFlight ==
    {i \in DOMAIN units :
        units[i].pc \in {"match", "lock", "load", "store", "unlock", "release"}}

\* units between mu.Lock() and mu.Unlock()
InAppend == {i \in DOMAIN units : units[i].pc \in {"load", "store", "unlock"}}

Count(seq, x) == Cardinality({i \in 1..Len(seq) : seq[i] = x})

(***************************************************************************)
(* C14: bulk ingestion ingests exactly the files named by a numeric id     *)
(* followed by ".json": the number of tickets in the result is the number  *)
(* of such files, and every other file (index.json, a name with other      *)
(* characters before the digits) yields no ticket and no error.  The       *)
(* pattern of readTickets also matches x1.json.                            *)
(***************************************************************************)
C14_OnlyNumericNamesIngested ==
    /\ PastWait => Len(tickets) = Cardinality({n \in PresentNames : NumericIdName(n)})
    /\ \A i \in DOMAIN units : units[i].pc = "fatal" => NumericIdName(globbed[i])

(***************************************************************************)
(* C15: when a file that the ingestion reads fails to read or to parse,    *)
(* the run aborts under every interleaving of the workers: neither the     *)
(* manifest nor the full-text index is written in that run.                *)
(***************************************************************************)
C15_FailureAborts ==
    (\E n \in PresentNames : FileReMatch(n) /\ Unparsable(dir[n]))
        => (~manifest.written /\ ~bleve.written)

\* the first run ended in log.Fatalf of one worker after another worker had
\* appended its ticket and finished; nothing was written
C15_Witness ==
    /\ run = 1
    /\ mpc = "exited"
    /\ \E i \in DOMAIN units : units[i].pc = "fatal" /\ Unparsable(dir[globbed[i]])
    /\ \E i \in DOMAIN units : units[i].pc = "finished" /\ FileReMatch(globbed[i])
    /\ tickets # <<>>
    /\ ~manifest.written /\ ~bleve.written

(***************************************************************************)
(* C16: for a fixed set of ticket documents the manifest is the same       *)
(* sequence in every run: it is ordered by numeric ticket id ascending and *)
(* a second run over the same directory writes the manifest of the first   *)
(* run, whatever the order in which the workers append.  Two documents of  *)
(* the same id (1.json and x1.json) are written in the order of arrival.   *)
(***************************************************************************)
C16_ManifestDeterministic ==
    /\ manifest.written =>
          \A i, j \in 1..Len(manifest.tickets) :
              i < j => Atoi(manifest.tickets[i].Id) <= Atoi(manifest.tickets[j].Id)
    /\ (run = 2 /\ manifest.written /\ firstRun.written) =>
          manifest.tickets = firstRun.tickets

C18_DocumentUntouched ==
    (res.op = "GetTicket" /\ res.outcome = "ok") =>
        /\ DOMAIN res.doc = DOMAIN res.stored
        /\ \A k \in DOMAIN res.stored : res.doc[k] = res.stored[k]

(***************************************************************************)
(* C19: loading the manifest fails whenever index.json is not a            *)
(* well-formed JSON array of manifest entries: a top-level object ({}      *)
(* included), a top-level scalar, a truncated array and an array with a    *)
(* non-entry element are rejected; none is loaded as an empty or partial   *)
(* offset index.  LoadIndex reads the first and the last token without     *)
(* looking at them, and Decode accepts null as an entry.                   *)
(***************************************************************************)
C19_MalformedManifestRejected == loaded = "ok" => indexJSON.kind = "array"

\* the entries the bytes of index.json hold
ManifestEntries ==
    CASE indexJSON.kind = "array" -> indexJSON.entries
      [] indexJSON.kind = "nullelement" -> Append(indexJSON.entries, NoTicket)
      [] OTHER -> <<>>

(***************************************************************************)
(* C28: after a manifest was loaded, every entry of the offset index is    *)
(* backed by the manifest: for a -> (ticket, txPos, attPos) the manifest   *)
(* has an entry of that ticket with a at Transactions[txPos]               *)
(* .Attachments[attPos], and every attachment id that occurs in the        *)
(* manifest is a key of the offset index.                                  *)
(***************************************************************************)
C28_IndexBackedByManifest ==
    loaded = "ok" =>
        /\ \A a \in DOMAIN attachmentMetaMap :
              attachmentMetaMap[a] \in ManifestPositions(ManifestEntries, a)
        /\ \A a \in AttIds :
              ManifestPositions(ManifestEntries, a) # {} => a \in DOMAIN attachmentMetaMap

\* a manifest that names attachment 102 in ticket 1 and in ticket 2 was loaded
C28_Witness ==
    /\ loaded = "ok"
    /\ indexJSON.kind = "array"
    /\ Cardinality(ManifestPositions(ManifestEntries, "102")) = 2
    /\ "102" \in DOMAIN attachmentMetaMap
    /\ attachmentMetaMap["102"].TicketID = "2"

\* the positions of a batch
Positions(batch) == {batch[k] : k \in DOMAIN batch}

\* the documents of a batch: a second document of the same id replaces the first
Documents(batch) == {tickets[k].Id : k \in Positions(batch)}

\* each ticket with a numeric id went to index.Batch in exactly one batch
SubmittedOnce ==
    \A k \in DOMAIN tickets :
        AtoiOk(tickets[k].Id) =>
            /\ Cardinality({b \in DOMAIN bleve.batches : k \in Positions(bleve.batches[b])}) = 1
            /\ \A b \in DOMAIN bleve.batches : Count(bleve.batches[b], k) <= 1

(***************************************************************************)
(* C21: for every batch size >= 1 and every sorted ticket sequence, each   *)
(* ticket with a numeric id is submitted to the full-text index in exactly *)
(* one batch, and no submitted batch holds more documents than the batch   *)
(* size.  The loop tests for a full batch only after a ticket whose id     *)
(* parses, so a batch grows past a ticket that is skipped.                 *)
(***************************************************************************)
C21_BatchesBounded ==
    /\ mpc = "done" /\ run = 1 => SubmittedOnce
    /\ mpc \in {"index", "done"} /\ run = 1 =>
          \A b \in DOMAIN bleve.batches :
              Cardinality(Documents(bleve.batches[b])) <= bleve.batchSize

\* no ticket is dropped and none is submitted twice
C21_NothingDroppedOrDoubled == mpc = "done" /\ run = 1 => SubmittedOnce

(***************************************************************************)
(* C22: a run ends with the manifest and a full-text index holding every   *)
(* ingested ticket both written, or with neither written; also when        *)
(* bleve.New or an index.Batch fails.  main writes the manifest before it  *)
(* calls buildBleveIndex.                                                  *)
(***************************************************************************)
C22_AllOrNothing ==
    mpc \in {"done", "exited"} =>
        \/ ~manifest.written /\ ~bleve.written
        \/ /\ manifest.written /\ bleve.written /\ ~bleve.failed
           /\ \A k \in DOMAIN manifest.tickets :
                 AtoiOk(manifest.tickets[k].Id) =>
                     \E b \in DOMAIN bleve.batches : k \in Positions(bleve.batches[b])

\* readTickets is between the call of filepath.Glob and the return of wg.Wait
Reading == mpc \in {"glob", "loop", "go"}

\* worker i runs and holds its slot
HoldsSlot(i) ==
    /\ Reading
    /\ i \in DOMAIN units
    /\ units[i].pc \in {"match", "lock", "load", "store", "unlock", "release"}

\* worker i gave its slot back
SlotReleased(i) == i \in DOMAIN units /\ units[i].pc \in {"done", "finished"}

(***************************************************************************)
(* C27: with a concurrency limit of at least 1 and file reads that return, *)
(* the reading phase finishes under fair scheduling: every launched worker *)
(* releases its slot, the launching loop is not blocked forever on a slot, *)
(* and wg.Wait returns, unless log.Fatalf ends the process first.          *)
(***************************************************************************)
C27_ReadingFinishes ==
    /\ Reading ~> (mpc \in {"sort", "exited"})
    /\ \A i \in 1..Cardinality(IngestNames) :
          HoldsSlot(i) ~> (SlotReleased(i) \/ mpc = "exited")
    /\ (mpc = "loop" /\ next <= Len(globbed)) ~> (mpc \in {"go", "exited"})

\* wg.Wait returned after more files than slots: the loop had to wait for a
\* slot, and every worker finished
C27_Witness ==
    /\ mpc = "sort"
    /\ Len(globbed) > ParallelRead
    /\ \A i \in DOMAIN units : units[i].pc = "finished"
    /\ sem = 0 /\ wg = 0 /\ mu = 0

\* the next statement of request c
ServeStep(c) ==
    /\ \/ MetaFor(c) \/ ParseFor(c) \/ LookupFor(c) \/ SetFor(c) \/ LocateFor(c)
       \/ SearchFor(c) \/ RespondFor(c)
    /\ ServeFrame

\* a step leaves the state Data shares between the requests as it was
SharedUntouched ==
    /\ attachmentMetaMap' = attachmentMetaMap
    /\ ticketIndex' = ticketIndex
    /\ Merged' = Merged
    /\ rtGitHubMap' = rtGitHubMap
    /\ files' = files /\ indexJSON' = indexJSON /\ bodies' = bodies

\* a step writes to the data of one request only
OneRequestWritten ==
    \A c, k \in Conns : (c # k /\ conns'[c] # conns[c]) => conns'[k] = conns[k]

(***************************************************************************)
(* C24: once loading is done no serving operation (GetTicket,              *)
(* GetAttachment, a search) changes the Offset Index, the manifest list,   *)
(* the merged-ticket map or the RT-to-GitHub map, under any interleaving   *)
(* of concurrent requests: a request reads shared state and writes only    *)
(* its own data, and no request waits on another.                          *)
(***************************************************************************)
C24_ServingReadsOnly ==
    /\ [][loaded = "ok" /\ conns # <<>> => SharedUntouched /\ OneRequestWritten]_vars
    /\ [](conns # <<>> => \A c \in Conns : conns[c].pc # "idle" => ENABLED ServeStep(c))

\* two requests for ticket 1 at once: the first has written GitHubIssue
\* into its own copy, the second has parsed its copy and not yet written
C24_Witness ==
    /\ loaded = "ok"
    /\ conns # <<>>
    /\ conns[1].op = "GetTicket" /\ conns[1].tid = "1" /\ conns[1].pc = "respond"
    /\ conns[1].t = [kind |-> "object", Id |-> "1",
                     Transactions |-> ContentFiles["1"].Transactions,
                     GitHubIssue |-> "gh-7"]
    /\ conns[2].op = "GetAttachment" /\ conns[2].tid = "1" /\ conns[2].pc = "set"
    /\ conns[2].t = ContentFiles["1"]
    /\ rtGitHubMap = [id \in {"1"} |-> "gh-7"]

(***************************************************************************)
(* C23: every request through the router is bounded by one timeout: a      *)
(* request whose handler has not completed when the timeout elapses is     *)
(* answered with the timeout error instead of being left to run, and the   *)
(* search runs under the context of the request, so a timed-out or         *)
(* cancelled request abandons its search in flight.                        *)
(***************************************************************************)
C23_RequestsBounded ==
    /\ [](\A c \in Conns : timed[c].ctx = "deadline" => timed[c].response = "timeout")
    /\ [](\A c \in Conns : timed[c].search = "inflight" => timed[c].sctx = "request")
    /\ \A c \in Conns : (timed[c].pc # "idle") ~> (timed[c].response # "")
    /\ \A c \in Conns :
          (timed[c].search = "inflight" /\ timed[c].ctx \in {"deadline", "cancelled"})
              ~> (timed[c].search # "inflight")

\* a search ran into the timeout: the client got the timeout error and the
\* search was abandoned, while the other request was answered by its handler
C23_Witness ==
    /\ timed[1].op = "search" /\ timed[1].ctx = "deadline"
    /\ timed[1].response = "timeout" /\ timed[1].search = "abandoned"
    /\ timed[2].op = "ticket" /\ timed[2].response = "handler"

=============================================================================
